---- MODULE Spec2Model ----
(***************************************************************************)
(* Judge bridge of the online judge: the packet handlers of                *)
(* DjangoJudgeHandler (judge/bridge/judgecallback.py) and the dispatcher   *)
(* judge_submission (judge/judgeapi.py), as a state machine over the       *)
(* stored submissions, their test-case rows and the live judge sessions.   *)
(* A step is one database statement or one event.post of a handler or of   *)
(* the dispatcher: a Model.save() writes every column of the row from the  *)
(* object that was read earlier, and no transaction spans two statements.  *)
(*                                                                         *)
(* Numbers: points and totals are kept in hundredths of a point (3.0 is    *)
(* 300), so round(x, 1) is a rounding to a multiple of 10.  Time is        *)
(* counted in ticks of 0.1 s.  None is NoneVal for numbers, "None" for     *)
(* tokens, and 0 for a session's _working / batch_id.                      *)
(***************************************************************************)
EXTENDS Integers, Sequences, FiniteSets, TLC

\* ---------------------------------------------------------------- bounds
\* rows a judge sends for one submission in one run (whole system)
MaxRows == 1
\* rows a judge sends for one submission in one run (scoring)
MaxScoreRows == 3
\* batches a judge opens in one connection
MaxBatches == 2
\* last clock tick (0.1 s each) the model lets time reach
MaxTime == 7
\* test-case packets one session sends for one submission (rate limiting)
MaxPackets == 8
\* largest status bitmask a test-case packet carries (status decoding)
MaxMask == 127
\* rows a judge sends for one submission in one run (status decoding)
MaxDecodeRows == 2
\* the longest payload a reply frame declares, in bytes
MaxFrame == 2
\* packets the judges send, calls of judge_submission and connections in
\* one behaviour of the whole system
MaxSent == 3
MaxCalls == 1
MaxConnects == 2
\* the same where an event, a dispatch or a race is followed
FewSent == 2
OneCall == 1
OneConnect == 1

\* ------------------------------------------------------ program constants
UPDATE_RATE_LIMIT == 5
\* 0.5 s, in ticks of 0.1 s
UPDATE_RATE_TIME == 5
\* size_pack.size, the bytes of the length prefix ('!I')
SIZE_PACK == 4

NoneVal == 0 - 1

Sessions == {1, 2}
SubIds == {1, 2}
\* an id that matches no stored submission
UnknownId == 9
PacketIds == SubIds \cup {UnknownId}
JudgeNames == {"j1"}
\* the keys of the site's Language rows
SiteLanguages == {"PY", "C"}

Terminal == {"D", "CE", "IE", "AB"}
StatusTokens == {"QU", "P", "G"} \cup Terminal

\* on_grading_end: status_codes, by list index 0..7
status_codes == <<"SC", "AC", "WA", "MLE", "TLE", "IR", "RTE", "OLE">>

VARIABLES
    sub,            \* Submission rows: id -> record of fields
    cases,          \* SubmissionTestCase rows per submission, in insertion order
    problem,        \* per submission: its problem (and contest problem) settings
    live,           \* session -> the connection is open
    name,           \* session -> judge name it authenticated as
    working,        \* session -> self._working (0 = False)
    in_batch,       \* session -> self.in_batch
    batch_id,       \* session -> self.batch_id (0 = None)
    update_counter, \* session -> id -> [cnt, reset] (cnt = 0: key absent)
    executors,      \* session -> self.executors: language key -> list of the
                    \* runtimes [name, version] the judge declared
    handshaken,     \* history: session -> its _connected ran to its end
    hObj,           \* session -> the handler it is in: [op, pc, id, obj, pkt, st, rows,
                    \* out, sent]
    online,         \* Judge.online per judge name
    runtimes,       \* RuntimeVersion rows per judge name: [s, language, name,
                    \* version, priority], s the session that created the row
    judge_runtimes, \* Judge.runtimes per judge name: the keys of its languages
    ping,           \* Judge.ping and Judge.load per judge name
    jsPc,           \* judge_submission per submission: "idle" | "called" | "saved" |
                    \* "deleted" | "refused" | "delivered" | "replied"
    jsReply,        \* what judge_request gave judge_submission, while it runs
    jsObj,          \* judge_submission's in-memory Submission object while it runs
    jsRet,          \* how judge_submission last ended: "none" | "true" | "false" | "raised"
    jsSent,         \* history: the status of judge_submission's object when the
                    \* request was sent, while it runs
    pending,        \* bridge: submission ids received and not yet given to a judge
    now,            \* TIMER(), in ticks
    posted,         \* events posted by the last step, in order
    tcLog,          \* history: session -> id -> test-case packets seen, [t, pub]
    torn,           \* history: ids whose judge closed while they were in G
    last,           \* history: the last step [op, s, id, st, rows, exc, arg, num, pos, wire,
                    \* out]
    budget          \* environment: the packets, calls of judge_submission and
                    \* connections still to come [packets, calls, connects]

vars == <<sub, cases, problem, live, name, working, in_batch, batch_id,
          update_counter, executors, handshaken, hObj, online, runtimes,
          judge_runtimes,
          ping, jsPc, jsReply, jsObj,
          jsRet, jsSent, pending, now, posted, tcLog, torn, last, budget>>

sessVars == <<live, name, working, in_batch, batch_id, update_counter,
              executors, handshaken>>
regVars == <<online, runtimes, judge_runtimes, ping>>
jsVars == <<jsPc, jsReply, jsObj, jsRet, jsSent, pending>>

\* ------------------------------------------------------------ data shapes
\* A Submission row as created by the site, before any dispatch.
NewSubmission ==
    [status |-> "QU", result |-> "None", error |-> "None",
     time |-> NoneVal, memory |-> NoneVal, points |-> NoneVal,
     case_points |-> 0, case_total |-> 0,
     is_pretested |-> FALSE, current_testcase |-> 0, batch |-> FALSE,
     judged_on |-> "None", contest_points |-> NoneVal]

\* Settings of the problem a submission belongs to; in_contest says the
\* submission has a ContestSubmission (hasattr(submission, 'contest')).
ProblemSettings(pub, part, pts, inc, cpts, cpart, pre) ==
    [is_public |-> pub, partial |-> part, points |-> pts,
     in_contest |-> inc, contest_points |-> cpts, contest_partial |-> cpart,
     run_pretests_only |-> pre]

\* An event handed to event.post(channel, message).
Event(ch, id, type) == [ch |-> ch, id |-> id, type |-> type]

\* both events posted without the test of problem.is_public
PostBothIgnoresPublic(id, type, state) ==
    <<Event("sub", id, type), Event("submissions", id, state)>>

\* The events a handler posts for a state change: one on 'sub_<id>' and,
\* for a public problem, one on the feed channel 'submissions'.
PostBoth(id, type, state) ==
    IF problem[id].is_public
    THEN <<Event("sub", id, type), Event("submissions", id, state)>>
    ELSE <<Event("sub", id, type)>>

\* What the socket of judge_request delivers after the request was written:
\* prefix bytes of the length prefix, the payload length the prefix declares,
\* got bytes of the payload (fewer than declared when the peer closes
\* early), and whether the bytes that were read are a whole zlib stream of a
\* JSON document.  NoWire: no request was made.
NoWire == [prefix |-> NoneVal, length |-> NoneVal, got |-> NoneVal, valid |-> FALSE]

NoCounter == [cnt |-> 0, reset |-> 0]

\* A session between two handlers.  Inside a handler: op names it, pc is
\* the source line of its next database statement or event.post, id the
\* submission of the packet, obj the object read from the database, pkt the
\* packet's payload, st and rows the status and the number of rows the
\* submission had when it was read, out the events the statements that
\* remain post, and sent how many of them are posted.
NoFrame ==
    [op |-> "none", pc |-> 0, id |-> 0, obj |-> NewSubmission, pkt |-> NoneVal,
     st |-> "None", rows |-> 0, out |-> <<>>, sent |-> 0]

\* A runtime a judge declares for a language, e.g. ("python", (2, 7)).
Runtime(n, v) == [name |-> n, version |-> v]

\* What the judges and the site may still do: [packets, calls, connects];
\* NoneVal stands for no bound.
Budget(p, c, o) == [packets |-> p, calls |-> c, connects |-> o]
Unbounded == Budget(NoneVal, NoneVal, NoneVal)

\* self.executors of a judge that declared no executor: the empty mapping.
NoExecutors == [k \in {} |-> <<>>]

\* judge_submission holds no reply of judge_request.
NoReply ==
    [raised |-> FALSE, cause |-> "none", name |-> "None", id |-> NoneVal,
     wire |-> NoWire]

\* The step just taken: handler, session, packet id, the status and the
\* number of rows the submission had before it, and whether it raised.
\* arg and num hold the payload of the call: a packet's log or message and
\* its status bitmask, the dispatcher's reply name and reply id.
\* wire holds what the dispatcher's socket delivered and pos the position of
\* a test-case packet; out holds the events a call that returned has posted.
Step(op, s, id, exc) ==
    [op |-> op, s |-> s, id |-> id,
     st |-> IF id \in SubIds THEN sub[id].status ELSE "None",
     rows |-> IF id \in SubIds THEN Len(cases[id]) ELSE 0,
     exc |-> exc, arg |-> "None", num |-> NoneVal,
     pos |-> NoneVal, wire |-> NoWire, out |-> <<>>]

StepWith(op, s, id, exc, arg, num) ==
    [Step(op, s, id, exc) EXCEPT !.arg = arg, !.num = num]

\* ------------------------------------------------------- pure computations
Bit(n, b) == (n \div b) % 2 = 1

\* on_test_case with the WA flag tested before all others
DecodeStatusWaFirst(status) ==
    IF Bit(status, 1) THEN "WA"
    ELSE IF Bit(status, 4) THEN "TLE"
    ELSE IF Bit(status, 8) THEN "MLE"
    ELSE IF Bit(status, 64) THEN "OLE"
    ELSE IF Bit(status, 2) THEN "RTE"
    ELSE IF Bit(status, 16) THEN "IR"
    ELSE IF Bit(status, 32) THEN "SC"
    ELSE "AC"

\* on_test_case: the bitmask to one status token, first set flag wins.
DecodeStatus(status) ==
    IF Bit(status, 4) THEN "TLE"
    ELSE IF Bit(status, 8) THEN "MLE"
    ELSE IF Bit(status, 64) THEN "OLE"
    ELSE IF Bit(status, 2) THEN "RTE"
    ELSE IF Bit(status, 16) THEN "IR"
    ELSE IF Bit(status, 1) THEN "WA"
    ELSE IF Bit(status, 32) THEN "SC"
    ELSE "AC"

\* status_codes.index(token), 0-based
StatusIndex(tok) == (CHOOSE i \in 1..Len(status_codes) : status_codes[i] = tok) - 1

Min(a, b) == IF a < b THEN a ELSE b
Max(a, b) == IF a > b THEN a ELSE b

\* -------------------------------------------------- Python float arithmetic
\* on_grading_end computes with Python floats: IEEE 754 binary64 values,
\* every operation rounded to the nearest float.
\* Natural numbers of any size, as the sequence of their digits to the base
\* 2^15, least significant first and without leading zeros.
BigBase == 32768

\* F applied to the value of x, and to the values of x and y: the arguments
\* are evaluated once, before F is.
Strict1(F(_), x) == CHOOSE r \in {F(u) : u \in {x}} : TRUE

Strict2(F(_, _), x, y) == CHOOSE r \in {F(u, v) : u \in {x}, v \in {y}} : TRUE

BigDigit(a, i) == IF i <= Len(a) THEN a[i] ELSE 0

RECURSIVE BigNorm(_)
BigNorm(a) ==
    IF a # <<>> /\ a[Len(a)] = 0 THEN BigNorm(SubSeq(a, 1, Len(a) - 1)) ELSE a

RECURSIVE BigOf(_)
BigOf(n) == IF n = 0 THEN <<>> ELSE <<n % BigBase>> \o BigOf(n \div BigBase)

RECURSIVE BigInt(_)
BigInt(a) == IF a = <<>> THEN 0 ELSE a[1] + BigBase * BigInt(Tail(a))

\* -1, 0 or 1 as a < b, a = b or a > b, looking at the digits from i down.
RECURSIVE BigCmpFrom(_, _, _)
BigCmpFrom(a, b, i) ==
    IF i = 0 THEN 0
    ELSE IF BigDigit(a, i) < BigDigit(b, i) THEN 0 - 1
    ELSE IF BigDigit(a, i) > BigDigit(b, i) THEN 1
    ELSE BigCmpFrom(a, b, i - 1)

BigCmp(a, b) ==
    Strict2(LAMBDA u, v : BigCmpFrom(u, v, Max(Len(u), Len(v))), a, b)

RECURSIVE BigAddFrom(_, _, _, _)
BigAddFrom(a, b, i, carry) ==
    IF i > Max(Len(a), Len(b))
    THEN IF carry = 0 THEN <<>> ELSE <<carry>>
    ELSE LET s == BigDigit(a, i) + BigDigit(b, i) + carry
         IN  <<s % BigBase>> \o BigAddFrom(a, b, i + 1, s \div BigBase)

BigAdd(a, b) == Strict2(LAMBDA u, v : BigAddFrom(u, v, 1, 0), a, b)

\* a - b for a >= b
RECURSIVE BigSubFrom(_, _, _, _)
BigSubFrom(a, b, i, borrow) ==
    IF i > Len(a) THEN <<>>
    ELSE LET d == BigDigit(a, i) - BigDigit(b, i) - borrow
         IN  <<d % BigBase>> \o BigSubFrom(a, b, i + 1, IF d < 0 THEN 1 ELSE 0)

BigSub(a, b) == Strict2(LAMBDA u, v : BigNorm(BigSubFrom(u, v, 1, 0)), a, b)

\* a * k for one digit k
RECURSIVE BigScaleFrom(_, _, _, _)
BigScaleFrom(a, k, i, carry) ==
    IF i > Len(a)
    THEN IF carry = 0 THEN <<>> ELSE <<carry>>
    ELSE LET p == a[i] * k + carry
         IN  <<p % BigBase>> \o BigScaleFrom(a, k, i + 1, p \div BigBase)

BigScale(a, k) ==
    Strict2(LAMBDA u, v : IF v = 0 THEN <<>> ELSE BigScaleFrom(u, v, 1, 0), a, k)

\* a * 2^n
BigShl(a, n) ==
    IF a = <<>> THEN <<>>
    ELSE [i \in 1..(n \div 15) |-> 0] \o BigScale(a, 2 ^ (n % 15))

RECURSIVE BigMulFrom(_, _, _)
BigMulFrom(a, b, i) ==
    IF i > Len(b) THEN <<>>
    ELSE BigAdd(BigScale(a, b[i]), <<0>> \o BigMulFrom(a, b, i + 1))

BigMul(a, b) == Strict2(LAMBDA u, v : BigNorm(BigMulFrom(u, v, 1)), a, b)

RECURSIVE BitLen(_)
BitLen(n) == IF n = 0 THEN 0 ELSE 1 + BitLen(n \div 2)

\* the number of binary digits of a
BigBitLen(a) == IF a = <<>> THEN 0 ELSE 15 * (Len(a) - 1) + BitLen(a[Len(a)])

\* binary digit i of a, counted from 1 at the least significant end
BigBit(a, i) == (BigDigit(a, (i - 1) \div 15 + 1) \div 2 ^ ((i - 1) % 15)) % 2

\* a div 2^k for k < 15
BigShr(a, k) ==
    BigNorm([i \in 1..Len(a) |->
                a[i] \div 2 ^ k + (BigDigit(a, i + 1) % 2 ^ k) * 2 ^ (15 - k)])

\* The next digit of the quotient in the long division by b, whose top
\* digit is at least 2^14, for the running remainder r < b * 2^15: the
\* estimate from the two top digits of r is at most 2 too large.
BigQuotDigit(r, b) ==
    Strict1(LAMBDA est : IF BigCmp(BigScale(b, est), r) <= 0 THEN est
                         ELSE IF BigCmp(BigScale(b, est - 1), r) <= 0 THEN est - 1
                         ELSE est - 2,
            Min((BigDigit(r, Len(b) + 1) * BigBase + BigDigit(r, Len(b)))
                    \div b[Len(b)],
                BigBase - 1))

\* One step of the long division of a by b: from the quotient and the
\* remainder qr of the digits above digit i to those with digit i taken in.
BigDivStep(a, b, i, qr) ==
    Strict1(LAMBDA r :
                Strict1(LAMBDA d : <<BigNorm(<<d>> \o qr[1]),
                                     BigSub(r, BigScale(b, d))>>,
                        BigQuotDigit(r, b)),
            BigNorm(<<a[i]>> \o qr[2]))

\* <<a div b, a mod b>> by long division over the digits of a, from the
\* top digit down to digit i.
RECURSIVE BigDivTo(_, _, _)
BigDivTo(a, b, i) ==
    IF i > Len(a) THEN <<<<>>, <<>>>>
    ELSE Strict1(LAMBDA qr : BigDivStep(a, b, i, qr), BigDivTo(a, b, i + 1))

\* <<a div b, a mod b>> for b > 0: both are scaled by 2^k to bring the top
\* digit of the divisor to 2^14 or more, and the remainder is scaled back.
BigDivScaled(a, b, k) ==
    Strict1(LAMBDA qr : <<qr[1], BigShr(qr[2], k)>>,
            Strict2(LAMBDA n, d : BigDivTo(n, d, 1),
                    BigScale(a, 2 ^ k), BigScale(b, 2 ^ k)))

BigDivMod(a, b) ==
    Strict2(LAMBDA n, d : BigDivScaled(n, d, 15 - BitLen(d[Len(d)])), a, b)

\* a * 2^k for k > 0, and a otherwise
BigShift(a, k) == IF k > 0 THEN BigShl(a, k) ELSE a

\* A float: the value (neg ? -1 : 1) * m * 2^e with m below 2^53 (or equal
\* to it).  Zero has m = <<>>.
FloatZero == [neg |-> FALSE, m |-> <<>>, e |-> 0]

\* <<q, r>> rounded to the nearest whole number of q + r / den, a half going
\* to the even one.
BigRoundEven(qr, den) ==
    Strict1(LAMBDA c : IF c > 0 \/ (c = 0 /\ BigDigit(qr[1], 1) % 2 = 1)
                       THEN BigAdd(qr[1], <<1>>) ELSE qr[1],
            BigCmp(BigScale(qr[2], 2), den))

\* The mantissa of the float nearest to num / den whose last binary place
\* is 2^-s.
FloatMantissa(num, den, s) ==
    Strict2(LAMBDA n, d : Strict1(LAMBDA qr : BigRoundEven(qr, d), BigDivMod(n, d)),
            BigShift(num, s), BigShift(den, 0 - s))

\* The float nearest to num / den for num, den > 0, where num * 2^s0 / den
\* has 53 or 54 binary digits; the mantissa takes 53 of them.
FloatAt(neg, num, den, s0) ==
    IF BigCmp(BigShift(num, s0), BigShift(BigShift(den, 0 - s0), 53)) >= 0
    THEN [neg |-> neg, m |-> FloatMantissa(num, den, s0 - 1), e |-> 1 - s0]
    ELSE [neg |-> neg, m |-> FloatMantissa(num, den, s0), e |-> 0 - s0]

\* The float nearest to num / den (den > 0): the rounding of every float
\* operation and of the parse of a decimal.
FloatNearest(neg, num, den) ==
    Strict2(LAMBDA n, d : IF n = <<>> THEN FloatZero
                          ELSE FloatAt(neg, n, d, 53 - (BigBitLen(n) - BigBitLen(d))),
            num, den)

\* The float a decimal with two places (n hundredths) parses to.
FloatOf(n) ==
    FloatNearest(n < 0, BigOf(IF n < 0 THEN 0 - n ELSE n), BigOf(100))

\* x + y for magnitudes a and b on the common last place 2^e
FloatSum(x, y, e, a, b) ==
    FloatNearest(IF BigCmp(a, b) >= 0 THEN x.neg ELSE y.neg,
                 BigShift(IF x.neg = y.neg THEN BigAdd(a, b)
                          ELSE IF BigCmp(a, b) >= 0 THEN BigSub(a, b)
                          ELSE BigSub(b, a),
                          e),
                 BigShift(<<1>>, 0 - e))

\* x + y
FloatAdd(x, y) ==
    Strict2(LAMBDA u, v :
                Strict2(LAMBDA a, b : FloatSum(u, v, Min(u.e, v.e), a, b),
                        BigShl(u.m, u.e - Min(u.e, v.e)),
                        BigShl(v.m, v.e - Min(u.e, v.e))),
            x, y)

\* x * y
FloatMul(x, y) ==
    Strict2(LAMBDA u, v : FloatNearest(u.neg # v.neg,
                                       BigShift(BigMul(u.m, v.m), u.e + v.e),
                                       BigShift(<<1>>, 0 - (u.e + v.e))),
            x, y)

\* x / y for y # 0
FloatDiv(x, y) ==
    Strict2(LAMBDA u, v : FloatNearest(u.neg # v.neg,
                                       BigShift(u.m, u.e - v.e),
                                       BigShift(v.m, v.e - u.e)),
            x, y)

\* <<q, r>> rounded to the nearest whole number of q + r / den, a half going
\* away from zero.
BigRoundAway(qr, den) ==
    BigInt(qr[1]) + (IF BigCmp(BigScale(qr[2], 2), den) >= 0 THEN 1 ELSE 0)

\* round(x, 1) of Python 2 for a float x, in hundredths: the multiple of
\* 0.1 nearest to the value the float holds, a value exactly halfway
\* between two going away from zero.
FloatRound1(x) ==
    Strict1(LAMBDA u :
                Strict2(LAMBDA n, d :
                            (IF u.neg THEN 0 - 10 ELSE 10)
                                * Strict1(LAMBDA qr : BigRoundAway(qr, d),
                                          BigDivMod(n, d)),
                        BigShift(BigScale(u.m, 10), u.e),
                        BigShift(<<1>>, 0 - u.e)),
            x)

\* n / d to the nearest multiple of 10, for a quotient that is not halfway
\* between two of them (d > 0).
NearestTen(n, d) == ((2 * n + 10 * d) \div (20 * d)) * 10

\* round(x, 1) for the float x that the decimal of n hundredths parses to.
\* Off a decimal half the float and the decimal round alike; on one the
\* float may lie on either side of the half.
Round1(n) ==
    IF n % 10 # 5 THEN NearestTen(n, 1) ELSE FloatRound1(FloatOf(n))

\* The float sum 0.0 + xs[1] + xs[2] + ... of decimals in hundredths, added
\* from the left.
RECURSIVE FloatSumFrom(_, _, _)
FloatSumFrom(xs, i, acc) ==
    IF i > Len(xs) THEN acc
    ELSE Strict1(LAMBDA f : FloatSumFrom(xs, i + 1, f),
                 FloatAdd(acc, FloatOf(xs[i])))

\* The exact sum of xs.
RECURSIVE PlainSum(_)
PlainSum(xs) == IF xs = <<>> THEN 0 ELSE Head(xs) + PlainSum(Tail(xs))

\* round(points, 1) for the float sum of the addends xs.  The float sum is
\* within a billionth of the exact sum, so off a decimal half both round
\* alike.
RoundSum1(xs) ==
    IF PlainSum(xs) % 10 # 5 THEN NearestTen(PlainSum(xs), 1)
    ELSE FloatRound1(FloatSumFrom(xs, 1, FloatZero))

\* ---------------------------------------------------------- Python 2 dict
\* batches = {} is a hash table of 8 slots that grows; an int is its own
\* hash, and "for i in batches" visits the slots in order.  The table is the
\* sequence of its slots, each holding a key (a batch id, 1 or more) or 0
\* for an empty slot; no key is ever deleted.
DictNew == [i \in 1..8 |-> 0]

\* lookdict: the slot of the key or the empty slot it goes to, probing from
\* slot i with the perturbation of the hash (PERTURB_SHIFT is 5).
RECURSIVE DictProbe(_, _, _, _)
DictProbe(table, key, i, perturb) ==
    IF table[(i % Len(table)) + 1] \in {0, key} THEN (i % Len(table)) + 1
    ELSE DictProbe(table, key, 5 * i + perturb + 1, perturb \div 32)

DictPut(table, key) ==
    [table EXCEPT ![DictProbe(table, key, key % Len(table), key)] = key]

\* dictresize: the smallest power of two from 8 up that is above n.
RECURSIVE DictSize(_, _)
DictSize(n, size) == IF size > n THEN size ELSE DictSize(n, 2 * size)

\* dictresize: the entries of the old table are put into the new one in the
\* order of the old slots.
RECURSIVE DictRebuild(_, _, _)
DictRebuild(old, i, new) ==
    IF i > Len(old) THEN new
    ELSE DictRebuild(old, i + 1, IF old[i] = 0 THEN new ELSE DictPut(new, old[i]))

DictUsed(table) == Cardinality({i \in 1..Len(table) : table[i] # 0})

\* batches[key] = ... : a new key takes its slot, and a table that is two
\* thirds full is rebuilt with more than four times as many slots as keys.
DictInsert(table, key) ==
    IF \E i \in 1..Len(table) : table[i] = key THEN table
    ELSE LET t == DictPut(table, key)
         IN  IF 3 * DictUsed(t) >= 2 * Len(t)
             THEN DictRebuild(t, 1, [i \in 1..DictSize(4 * DictUsed(t), 8) |-> 0])
             ELSE t

\* The keys in the order "for i in batches" visits them.
DictKeys(table) == SelectSeq(table, LAMBDA k : k # 0)

\* on_grading_end, lines 149-155: the accumulators before the loop.  points
\* and total hold the addends of the float sums, in the order they are
\* added.
AggregateStart ==
    [time |-> 0, memory |-> 0, points |-> <<>>, total |-> <<>>, status |-> 0,
     batches |-> [x \in {} |-> <<0, 0>>], slots |-> DictNew]

\* the loop body with every row counted as a standalone case
AggregateCaseIgnoresBatch(acc, case) ==
    LET i == StatusIndex(case.status)
    IN  [time |-> acc.time + case.time,
         points |-> Append(acc.points, case.points),
         total |-> Append(acc.total, case.total),
         batches |-> acc.batches,
         slots |-> acc.slots,
         memory |-> Max(acc.memory, case.memory),
         status |-> IF i > acc.status THEN i ELSE acc.status]

\* the loop body with the status of the row read last kept as the result
AggregateCaseLastStatus(acc, case) ==
    LET std == case.batch = NoneVal \/ case.batch = 0
        b == case.batch
        old == acc.batches
    IN  [time |-> acc.time + case.time,
         points |-> IF std THEN Append(acc.points, case.points) ELSE acc.points,
         total |-> IF std THEN Append(acc.total, case.total) ELSE acc.total,
         batches |->
            IF std THEN old
            ELSE IF b \in DOMAIN old
            THEN [old EXCEPT ![b] = <<Min(old[b][1], case.points),
                                      Max(old[b][2], case.total)>>]
            ELSE [x \in DOMAIN old \cup {b} |->
                     IF x = b THEN <<case.points, case.total>> ELSE old[x]],
         slots |-> IF std THEN acc.slots ELSE DictInsert(acc.slots, b),
         memory |-> Max(acc.memory, case.memory),
         status |-> StatusIndex(case.status)]

\* on_grading_end, the body of the loop over the stored rows.
AggregateCase(acc, case) ==
    LET std == case.batch = NoneVal \/ case.batch = 0
        i == StatusIndex(case.status)
        b == case.batch
        old == acc.batches
    IN  [time |-> acc.time + case.time,
         points |-> IF std THEN Append(acc.points, case.points) ELSE acc.points,
         total |-> IF std THEN Append(acc.total, case.total) ELSE acc.total,
         batches |->
            IF std THEN old
            ELSE IF b \in DOMAIN old
            THEN [old EXCEPT ![b] = <<Min(old[b][1], case.points),
                                      Max(old[b][2], case.total)>>]
            ELSE [x \in DOMAIN old \cup {b} |->
                     IF x = b THEN <<case.points, case.total>> ELSE old[x]],
         slots |-> IF std THEN acc.slots ELSE DictInsert(acc.slots, b),
         memory |-> Max(acc.memory, case.memory),
         status |-> IF i > acc.status THEN i ELSE acc.status]

RECURSIVE AggregateFrom(_, _, _)
AggregateFrom(rows, i, acc) ==
    IF i > Len(rows) THEN acc
    ELSE AggregateFrom(rows, i + 1, AggregateCase(acc, rows[i]))

\* on_grading_end, "for i in batches": component k of the entries of the
\* dict, for its keys in the order of the iteration.
RECURSIVE BatchAddends(_, _, _)
BatchAddends(batches, keys, k) ==
    IF keys = <<>> THEN <<>>
    ELSE <<batches[Head(keys)][k]>> \o BatchAddends(batches, Tail(keys), k)

\* on_grading_end up to the two round(.., 1) calls: what is stored as
\* case_points / case_total, and time, memory and the status index.
Aggregate(rows) ==
    LET acc == AggregateFrom(rows, 1, AggregateStart)
    IN  [time |-> acc.time, memory |-> acc.memory, status |-> acc.status,
         points |-> RoundSum1(acc.points
                              \o BatchAddends(acc.batches, DictKeys(acc.slots), 1)),
         total |-> RoundSum1(acc.total
                             \o BatchAddends(acc.batches, DictKeys(acc.slots), 2))]

\* the computed points cut to a tenth instead of rounded
ComputedPointsTruncates(points, total, maxpts) ==
    IF total > 0 THEN ((points * maxpts) \div (10 * total)) * 10 ELSE 0

\* on_grading_end: round(points / total * max if total > 0 else 0, 1), all
\* in hundredths.  The float quotient times max is within a billionth of
\* the exact value, so both round alike unless the exact value is halfway
\* between two tenths; there the float operations decide.
ComputedPoints(points, total, maxpts) ==
    IF total > 0
    THEN IF (points * maxpts) % total = 0 /\ ((points * maxpts) \div total) % 10 = 5
         THEN FloatRound1(FloatMul(FloatDiv(FloatOf(points), FloatOf(total)),
                                   FloatOf(maxpts)))
         ELSE NearestTen(points * maxpts, total)
    ELSE 0

\* the computed points kept whatever the problem's partial flag says
FinalPointsAlwaysPartial(points, total, maxpts, partial) ==
    ComputedPoints(points, total, maxpts)

\* on_grading_end: the all-or-nothing rule applied to the computed points.
FinalPoints(points, total, maxpts, partial) ==
    LET sub_points == ComputedPoints(points, total, maxpts)
    IN  IF ~partial /\ sub_points # maxpts THEN 0 ELSE sub_points

\* the limiter with "cnt >= UPDATE_RATE_LIMIT" for "cnt > UPDATE_RATE_LIMIT"
RateLimitOffByOne(c, t) ==
    IF c.cnt > 0 /\ ~(t - c.reset > UPDATE_RATE_TIME)
    THEN [c |-> [cnt |-> c.cnt + 1, reset |-> c.reset],
          post |-> ~(c.cnt + 1 >= UPDATE_RATE_LIMIT)]
    ELSE [c |-> [cnt |-> 1, reset |-> t], post |-> TRUE]

\* on_test_case: the update of update_counter[id] at clock value t, and
\* whether the event is posted.  c.cnt = 0 stands for "id not in the dict".
RateLimit(c, t) ==
    IF c.cnt > 0 /\ ~(t - c.reset > UPDATE_RATE_TIME)
    THEN [c |-> [cnt |-> c.cnt + 1, reset |-> c.reset],
          post |-> ~(c.cnt + 1 > UPDATE_RATE_LIMIT)]
    ELSE [c |-> [cnt |-> 1, reset |-> t], post |-> TRUE]

\* ------------------------------------------------------------------- Init
InitSessions ==
    /\ live = [s \in Sessions |-> FALSE]
    /\ name = [s \in Sessions |-> "None"]
    /\ working = [s \in Sessions |-> 0]
    /\ in_batch = [s \in Sessions |-> FALSE]
    /\ batch_id = [s \in Sessions |-> NoneVal]
    /\ update_counter = [s \in Sessions |-> [i \in SubIds |-> NoCounter]]
    /\ executors = [s \in Sessions |-> NoExecutors]
    /\ handshaken = [s \in Sessions |-> FALSE]
    /\ hObj = [s \in Sessions |-> NoFrame]
    /\ tcLog = [s \in Sessions |-> [i \in SubIds |-> <<>>]]
    /\ online = [j \in JudgeNames |-> FALSE]
    /\ runtimes = [j \in JudgeNames |-> {}]
    /\ judge_runtimes = [j \in JudgeNames |-> {}]
    /\ ping = [j \in JudgeNames |-> <<NoneVal, NoneVal>>]

InitStore ==
    /\ sub = [i \in SubIds |-> NewSubmission]
    /\ cases = [i \in SubIds |-> <<>>]
    /\ jsPc = [i \in SubIds |-> "idle"]
    /\ jsObj = [i \in SubIds |-> NewSubmission]
    /\ jsReply = [i \in SubIds |-> NoReply]
    /\ jsRet = [i \in SubIds |-> "none"]
    /\ jsSent = [i \in SubIds |-> "None"]
    /\ pending = {}
    /\ now = 0
    /\ posted = <<>>
    /\ torn = {}
    /\ last = [op |-> "init", s |-> 0, id |-> 0, st |-> "None", rows |-> 0,
               exc |-> FALSE, arg |-> "None", num |-> NoneVal,
               pos |-> NoneVal, wire |-> NoWire, out |-> <<>>]

\* Submission 1 is on a public problem with partial credit, submission 2 is
\* a contest submission on a private all-or-nothing problem.
InitWith(b) ==
    /\ InitSessions
    /\ InitStore
    /\ problem = [i \in SubIds |->
                    IF i = 1
                    THEN ProblemSettings(TRUE, TRUE, 1000, FALSE, 0, TRUE, FALSE)
                    ELSE ProblemSettings(FALSE, FALSE, 1000, TRUE, 800, FALSE, TRUE)]
    /\ budget = b

\* The whole system: at most MaxSent packets, MaxCalls calls of
\* judge_submission and MaxConnects connections.
Init == InitWith(Budget(MaxSent, MaxCalls, MaxConnects))

\* A specification that bounds its runs by the rows and batches it sends.
InitRun == InitWith(Unbounded)

\* ------------------------------------------------------- a session's thread
\* A session runs its handlers one after the other; every statement that
\* reads or writes the database and every event.post is a step of its own,
\* and statements of other sessions and of the dispatcher run between two of
\* them.  The reads of submission.problem and submission.contest_key, rows
\* that nothing here writes, belong to the step before them.

\* The session is connected and between two handlers.
Ready(s) == live[s] /\ hObj[s].op = "none"

\* The session runs handler op and its next database statement is at line.
At(s, op, line) == hObj[s].op = op /\ hObj[s].pc = line

\* The session goes on to the statement at line.
Goto(s, line) == [hObj EXCEPT ![s].pc = line]

\* The handler of the session returns.
Return(s) == [hObj EXCEPT ![s] = NoFrame]

\* Model.save(): an UPDATE of every column of the row from the object in
\* memory.  The contest points are a column of another row
\* (ContestSubmission), which the save of a Submission does not write.
Saved(id, obj) ==
    [sub EXCEPT ![id] = [obj EXCEPT !.contest_points = sub[id].contest_points]]

\* The history entry of a step of a running handler: the status and the rows
\* are those the submission had when the handler read it.
FrameStep(s, op, exc) ==
    [op |-> op, s |-> s, id |-> hObj[s].id, st |-> hObj[s].st,
     rows |-> hObj[s].rows, exc |-> exc, arg |-> "None", num |-> NoneVal,
     pos |-> NoneVal, wire |-> NoWire, out |-> <<>>]

\* The history entry of the step at which the handler of a packet returns:
\* arg, num and pos show the packet's payload.
PacketStep(s, op, id, pkt, st, rows, exc) ==
    [op |-> op, s |-> s, id |-> id, st |-> st, rows |-> rows, exc |-> exc,
     arg |-> IF op \in {"compile-error", "compile-message", "internal-error"}
             THEN pkt ELSE "None",
     num |-> IF op = "grading-begin" THEN (IF pkt THEN 1 ELSE 0)
             ELSE IF op = "test-case" THEN pkt.status
             ELSE NoneVal,
     pos |-> IF op = "test-case" THEN pkt.position ELSE NoneVal,
     wire |-> NoWire, out |-> <<>>]

\* The handler of the packet the session is working on returns, having
\* posted events.
Returns(s, events) ==
    [PacketStep(s, hObj[s].op, hObj[s].id, hObj[s].pkt, hObj[s].st,
                hObj[s].rows, FALSE) EXCEPT !.out = events]

\* After the last database statement of a handler: the events it goes on to
\* post, the first of them at line; with none to post it returns.
Posts(s, line, events) ==
    IF events = <<>>
    THEN /\ hObj' = Return(s)
         /\ last' = Returns(s, <<>>)
    ELSE /\ hObj' = [hObj EXCEPT ![s].pc = line, ![s].out = events,
                                 ![s].sent = 0]
         /\ last' = FrameStep(s, "running", FALSE)

\* event.post(channel, message): the handler posts the next of its events,
\* and returns after the last one.
event_post(s) ==
    /\ hObj[s].sent < Len(hObj[s].out)
    /\ posted' = <<hObj[s].out[hObj[s].sent + 1]>>
    /\ IF hObj[s].sent + 1 = Len(hObj[s].out)
       THEN /\ hObj' = Return(s)
            /\ last' = Returns(s, hObj[s].out)
       ELSE /\ hObj' = [hObj EXCEPT ![s].sent = @ + 1]
            /\ last' = FrameStep(s, "running", FALSE)
    /\ UNCHANGED <<sub, cases, problem, sessVars, regVars, jsVars, now, tcLog,
                   torn>>

\* ------------------------------------------------- registry and lifecycle
\* str(n) for a number of a version.
DecimalDigits == <<"0", "1", "2", "3", "4", "5", "6", "7", "8", "9">>

RECURSIVE Str(_)
Str(n) ==
    IF n < 10 THEN DecimalDigits[n + 1]
    ELSE Str(n \div 10) \o DecimalDigits[(n % 10) + 1]

\* '.'.join(map(str, version))
RECURSIVE VersionString(_)
VersionString(version) ==
    IF version = <<>> THEN ""
    ELSE IF Len(version) = 1 THEN Str(version[1])
    ELSE Str(version[1]) \o "." \o VersionString(Tail(version))

\* _connected, lines 71-75: the RuntimeVersion objects built for one
\* language from the list the judge declared for it, the priority of each
\* its index in the list.
RuntimeRows(s, lang) ==
    {[s |-> s, language |-> lang,
      name |-> executors[s][lang][idx + 1].name,
      version |-> VersionString(executors[s][lang][idx + 1].version),
      priority |-> idx] : idx \in 0..(Len(executors[s][lang]) - 1)}

\* A judge connects and authenticates as j, declaring the executors execs: a
\* fresh handler (__init__), and _connected, lines 65-67: the judge's row
\* is read.
Connect(s, j, execs) ==
    /\ ~live[s]
    /\ live' = [live EXCEPT ![s] = TRUE]
    /\ name' = [name EXCEPT ![s] = j]
    /\ working' = [working EXCEPT ![s] = 0]
    /\ in_batch' = [in_batch EXCEPT ![s] = FALSE]
    /\ batch_id' = [batch_id EXCEPT ![s] = NoneVal]
    /\ update_counter' = [update_counter EXCEPT ![s] = [i \in SubIds |-> NoCounter]]
    /\ tcLog' = [tcLog EXCEPT ![s] = [i \in SubIds |-> <<>>]]
    /\ hObj' = [hObj EXCEPT ![s] =
                  [NoFrame EXCEPT
                      !.op = "connect", !.pc = 69,
                      !.obj = [online |-> online[j], ping |-> ping[j],
                               langs |-> {}]]]
    /\ executors' = [executors EXCEPT ![s] = execs]
    /\ handshaken' = [handshaken EXCEPT ![s] = FALSE]
    /\ posted' = <<>>
    /\ last' = Step("connecting", s, 0, FALSE)
    /\ UNCHANGED <<sub, cases, problem, regVars, jsVars, now, torn>>

\* _connected, line 69: the languages of the site whose key the judge
\* declared become the languages of the judge.
ConnectedRuntimes(s) ==
    /\ At(s, "connect", 69)
    /\ judge_runtimes' = [judge_runtimes EXCEPT
                             ![name[s]] = DOMAIN executors[s] \cap SiteLanguages]
    /\ hObj' = Goto(s, 70)
    /\ posted' = <<>>
    /\ last' = Step("connecting", s, 0, FALSE)
    /\ UNCHANGED <<sub, cases, problem, sessVars, online, runtimes, ping, jsVars,
                   now, tcLog, torn>>

\* _connected, line 70: judge.runtimes.all() is read for the loop, as it is
\* stored by now.
ConnectedQuery(s) ==
    /\ At(s, "connect", 70)
    /\ hObj' = [hObj EXCEPT
                   ![s].obj.langs = judge_runtimes[name[s]],
                   ![s].pc = IF judge_runtimes[name[s]] = {} THEN 78 ELSE 76]
    /\ posted' = <<>>
    /\ last' = Step("connecting", s, 0, FALSE)
    /\ UNCHANGED <<sub, cases, problem, sessVars, regVars, jsVars, now, tcLog,
                   torn>>

\* _connected, lines 70-76, one pass of the loop: the runtime versions the
\* judge declared for one of the languages are stored by one bulk_create
\* (no row for an empty list); the languages come in the order of the
\* query, which is any.  self.executors[lang.key] raises KeyError for a
\* language this session did not declare, and _connected ends there.
ConnectedCreate(s) ==
    /\ At(s, "connect", 76)
    /\ \E lang \in hObj[s].obj.langs :
          IF lang \in DOMAIN executors[s]
          THEN /\ runtimes' = [runtimes EXCEPT
                                  ![name[s]] = @ \cup RuntimeRows(s, lang)]
               /\ hObj' = [hObj EXCEPT
                              ![s].obj.langs = @ \ {lang},
                              ![s].pc = IF hObj[s].obj.langs = {lang}
                                        THEN 78 ELSE 76]
               /\ last' = Step("connecting", s, 0, FALSE)
          ELSE /\ runtimes' = runtimes
               /\ hObj' = Return(s)
               /\ last' = Step("connect", s, 0, TRUE)
    /\ posted' = <<>>
    /\ UNCHANGED <<sub, cases, problem, sessVars, online, ping, judge_runtimes,
                   jsVars, now, tcLog, torn>>

\* _connected, lines 67 and 78: judge.save() writes every column of the row
\* read at line 65, with online set.
Connected(s) ==
    /\ At(s, "connect", 78)
    /\ online' = [online EXCEPT ![name[s]] = TRUE]
    /\ ping' = [ping EXCEPT ![name[s]] = hObj[s].obj.ping]
    /\ handshaken' = [handshaken EXCEPT ![s] = TRUE]
    /\ hObj' = Return(s)
    /\ posted' = <<>>
    /\ last' = Step("connect", s, 0, FALSE)
    /\ UNCHANGED <<sub, cases, problem, live, name, working, in_batch, batch_id,
                   update_counter, executors, runtimes, judge_runtimes, jsVars,
                   now, tcLog, torn>>

\* on_supported_problems, line 363: the judge's row is read.
on_supported_problems_get(s) ==
    /\ Ready(s)
    /\ hObj' = [hObj EXCEPT ![s] =
                  [NoFrame EXCEPT !.op = "supported-problems", !.pc = 365,
                                  !.obj = [online |-> online[name[s]],
                                           ping |-> ping[name[s]]]]]
    /\ posted' = <<>>
    /\ last' = Step("running", s, 0, FALSE)
    /\ UNCHANGED <<sub, cases, problem, sessVars, regVars, jsVars, now, tcLog,
                   torn>>

\* on_supported_problems, line 365: judge.save() writes every column of the
\* row as it was read.
on_supported_problems(s) ==
    /\ At(s, "supported-problems", 365)
    /\ online' = [online EXCEPT ![name[s]] = hObj[s].obj.online]
    /\ ping' = [ping EXCEPT ![name[s]] = hObj[s].obj.ping]
    /\ hObj' = Return(s)
    /\ posted' = <<>>
    /\ last' = Step("supported-problems", s, 0, FALSE)
    /\ UNCHANGED <<sub, cases, problem, sessVars, runtimes, judge_runtimes, jsVars, now, tcLog,
                   torn>>

\* JudgeHandler._free_self: the session no longer works on a submission.
FreeSelf(s) == [working EXCEPT ![s] = 0]

\* The session has begun to close.
Closing(s) == hObj[s].op = "close"

\* on_close, first statement: _disconnected, line 81: the judge's row is
\* updated to offline; its RuntimeVersion rows are still stored.
on_close_update(s) ==
    /\ Ready(s)
    /\ online' = [online EXCEPT ![name[s]] = FALSE]
    /\ hObj' = [hObj EXCEPT ![s] =
                  [NoFrame EXCEPT !.op = "close", !.pc = 82, !.id = working[s]]]
    /\ posted' = <<>>
    /\ last' = Step("closing", s, working[s], FALSE)
    /\ UNCHANGED <<sub, cases, problem, sessVars, runtimes, judge_runtimes, ping, jsVars, now,
                   tcLog, torn>>

\* the second statement without the delete of line 82
OnCloseDeleteKeepsRuntimes(s) ==
    /\ At(s, "close", 82)
    /\ runtimes' = runtimes
    /\ IF working[s] = 0
       THEN /\ live' = [live EXCEPT ![s] = FALSE]
            /\ hObj' = Return(s)
            /\ last' = Step("close", s, 0, FALSE)
       ELSE /\ live' = live
            /\ hObj' = Goto(s, 38)
            /\ last' = Step("closing", s, working[s], FALSE)
    /\ posted' = <<>>
    /\ UNCHANGED <<sub, cases, problem, name, working, in_batch, batch_id,
                   update_counter, executors, handshaken, online, ping, judge_runtimes, jsVars, now, tcLog,
                   torn>>

\* _disconnected, line 82: the judge's RuntimeVersion rows are deleted; a
\* session that works on no submission is gone (on_close, line 37).
on_close_delete(s) ==
    /\ At(s, "close", 82)
    /\ runtimes' = [runtimes EXCEPT ![name[s]] = {}]
    /\ IF working[s] = 0
       THEN /\ live' = [live EXCEPT ![s] = FALSE]
            /\ hObj' = Return(s)
            /\ last' = Step("close", s, 0, FALSE)
       ELSE /\ live' = live
            /\ hObj' = Goto(s, 38)
            /\ last' = Step("closing", s, working[s], FALSE)
    /\ posted' = <<>>
    /\ UNCHANGED <<sub, cases, problem, name, working, in_batch, batch_id,
                   update_counter, executors, handshaken, online, ping, judge_runtimes, jsVars, now, tcLog,
                   torn>>

\* on_close, line 38: Submission.objects.get(id=self._working), which raises
\* DoesNotExist when the session works on an id that has no stored row.
on_close_get(s) ==
    /\ At(s, "close", 38)
    /\ IF working[s] \in SubIds
       THEN /\ live' = live
            /\ hObj' = [hObj EXCEPT ![s].pc = 40,
                                    ![s].obj = sub[working[s]],
                                    ![s].st = sub[working[s]].status,
                                    ![s].rows = Len(cases[working[s]])]
            /\ last' = Step("closing", s, working[s], FALSE)
       ELSE /\ live' = [live EXCEPT ![s] = FALSE]
            /\ hObj' = Return(s)
            /\ last' = Step("close", s, working[s], TRUE)
    /\ posted' = <<>>
    /\ UNCHANGED <<sub, cases, problem, name, working, in_batch, batch_id,
                   update_counter, executors, handshaken, regVars, jsVars, now, tcLog, torn>>

\* on_close, lines 39-40: the submission the session was working on is
\* saved with status IE, and the session is gone.
on_close(s) ==
    /\ At(s, "close", 40)
    /\ sub' = Saved(hObj[s].id, [hObj[s].obj EXCEPT !.status = "IE"])
    /\ torn' = IF hObj[s].st = "G" THEN torn \cup {hObj[s].id} ELSE torn
    /\ live' = [live EXCEPT ![s] = FALSE]
    /\ hObj' = Return(s)
    /\ posted' = <<>>
    /\ last' = FrameStep(s, "close", FALSE)
    /\ UNCHANGED <<cases, problem, name, working, in_batch, batch_id,
                   update_counter, executors, handshaken, regVars, jsVars, now, tcLog>>

\* ------------------------------------------------------------- dispatcher
\* judge_submission, lines 44-55: the object passed in, with its result
\* fields reset and is_pretested taken from the contest, when there is one.
ResetForJudging(obj, id) ==
    [obj EXCEPT
        !.time = NoneVal, !.memory = NoneVal, !.points = NoneVal,
        !.result = "None", !.error = "None",
        !.is_pretested = IF problem[id].in_contest
                         THEN problem[id].run_pretests_only
                         ELSE @]

\* judge_request(packet, reply=True): what the call gives back for what
\* happens on the socket.  "refused": connect raises; "timeout": a socket
\* operation times out; "closed": the peer closes and read returns nothing
\* (ValueError); "garbage": the bytes are no zlib stream or no JSON;
\* "reply": the decoded JSON object, here with its 'name' and
\* 'submission-id' keys ("None" / NoneVal: the key is absent).
judge_request(outcome, response) ==
    IF outcome = "reply"
    THEN [raised |-> FALSE, cause |-> "reply",
          name |-> response[1], id |-> response[2], wire |-> NoWire]
    ELSE [raised |-> TRUE, cause |-> outcome, name |-> "None", id |-> NoneVal,
          wire |-> NoWire]

\* judge_request, lines 25-39: the read of the reply.  An empty read at the
\* prefix or at the payload raises ValueError ("closed"); a short prefix
\* fails in unpack ("truncated"); bytes that are no whole zlib stream of a
\* JSON document fail in the decoder or the parser ("truncated" when fewer
\* bytes came than the prefix declared, "garbage" otherwise); bytes that are
\* one are decoded and the parsed object is returned ("reply"), whether or
\* not as many came as the prefix declared: the length is used for the read
\* only.
judge_request_read(w) ==
    IF w.prefix = 0 THEN "closed"
    ELSE IF w.prefix < SIZE_PACK THEN "truncated"
    ELSE IF w.got = 0 THEN "closed"
    ELSE IF w.valid THEN "reply"
    ELSE IF w.got < w.length THEN "truncated"
    ELSE "garbage"

\* judge_request on a socket that delivers w, response being the document
\* the payload holds.
judge_request_on(w, response) ==
    [judge_request(judge_request_read(w), response) EXCEPT !.wire = w]

\* judge_submission, lines 72-73: reading response['name'] and
\* response['submission-id'] raises KeyError for an absent key; the id is
\* read only when the name matches.
ReplyRaises(reply) ==
    /\ ~reply.raised
    /\ \/ reply.name = "None"
       \/ reply.name = "submission-received" /\ reply.id = NoneVal

\* judge_submission, lines 67-73: the status stored for the reply.
DispatchStatus(id, reply) ==
    IF ~reply.raised /\ reply.name = "submission-received" /\ reply.id = id
    THEN "QU"
    ELSE "IE"

\* judge_submission, lines 74-78: the feed event, posted in the else branch
\* only.
DispatchEvents(id, reply) ==
    IF ~reply.raised /\ ~ReplyRaises(reply) /\ problem[id].is_public
    THEN <<Event("submissions", id, "update-submission")>>
    ELSE <<>>

\* the success flag set to True on the transport failure as well
DispatchReturnAlwaysTrue(reply) ==
    IF reply.raised THEN "true"
    ELSE IF ReplyRaises(reply) THEN "raised"
    ELSE "true"

\* judge_submission, line 70 / 79 / 81: the success flag returned, or
\* "raised" when the exception of lines 72-73 leaves the function.
DispatchReturn(reply) ==
    IF reply.raised THEN "false"
    ELSE IF ReplyRaises(reply) THEN "raised"
    ELSE "true"

\* The history entry of a dispatch.
DispatchStep(op, id, reply) ==
    [StepWith(op, 0, id, ReplyRaises(reply),
              IF reply.raised THEN reply.cause ELSE reply.name, reply.id)
        EXCEPT !.wire = reply.wire]

\* The caller of judge_submission holds the Submission object it read from
\* the database; the function works on that object.
judge_submission_get(id) ==
    /\ jsPc[id] = "idle"
    /\ jsObj' = [jsObj EXCEPT ![id] = sub[id]]
    /\ jsPc' = [jsPc EXCEPT ![id] = "called"]
    /\ posted' = <<>>
    /\ last' = Step("js-get", 0, id, FALSE)
    /\ UNCHANGED <<sub, cases, problem, sessVars, hObj, regVars, jsReply, jsRet,
                   jsSent, pending, now, tcLog, torn>>

\* judge_submission, lines 44-56: the result fields of the object are reset
\* and the object is saved.
judge_submission_save(id) ==
    /\ jsPc[id] = "called"
    /\ jsObj' = [jsObj EXCEPT ![id] = ResetForJudging(@, id)]
    /\ sub' = Saved(id, ResetForJudging(jsObj[id], id))
    /\ jsPc' = [jsPc EXCEPT ![id] = "saved"]
    /\ posted' = <<>>
    /\ torn' = torn \ {id}
    /\ last' = Step("js-save", 0, id, FALSE)
    /\ UNCHANGED <<cases, problem, sessVars, hObj, regVars, jsReply, jsRet,
                   jsSent, pending, now, tcLog>>

\* judge_submission, line 57: the stored rows of the submission are deleted.
judge_submission_delete(id) ==
    /\ jsPc[id] = "saved"
    /\ cases' = [cases EXCEPT ![id] = <<>>]
    /\ jsPc' = [jsPc EXCEPT ![id] = "deleted"]
    /\ posted' = <<>>
    /\ last' = Step("js-delete", 0, id, FALSE)
    /\ UNCHANGED <<sub, problem, sessVars, hObj, regVars, jsReply, jsObj, jsRet,
                   jsSent, pending, now, tcLog, torn>>

\* judge_submission, lines 59-66: the request is written; it reaches the
\* bridge or it does not.
judge_submission_request(id, reach) ==
    /\ jsPc[id] = "deleted"
    /\ jsPc' = [jsPc EXCEPT ![id] = IF reach THEN "delivered" ELSE "refused"]
    /\ jsSent' = [jsSent EXCEPT ![id] = jsObj[id].status]
    /\ pending' = IF reach THEN pending \cup {id} ELSE pending
    /\ posted' = <<>>
    /\ last' = Step("js-request", 0, id, FALSE)
    /\ UNCHANGED <<sub, cases, problem, sessVars, hObj, regVars, jsReply, jsObj,
                   jsRet, now, tcLog, torn>>

\* judge_submission, lines 67-79: judge_request returns or raises; the
\* status is set on the object and, in the else branch, the feed event of
\* a public problem is posted.  A KeyError of lines 72-73 leaves the
\* function before anything is posted or saved.
judge_submission_reply(id, reply) ==
    /\ jsPc[id] \in {"delivered", "refused"}
    /\ reply.cause = "refused" <=> jsPc[id] = "refused"
    /\ IF ReplyRaises(reply)
       THEN /\ jsObj' = [jsObj EXCEPT ![id] = NewSubmission]
            /\ jsReply' = jsReply
            /\ jsRet' = [jsRet EXCEPT ![id] = DispatchReturn(reply)]
            /\ jsPc' = [jsPc EXCEPT ![id] = "idle"]
            /\ jsSent' = [jsSent EXCEPT ![id] = "None"]
            /\ last' = DispatchStep("judge-submission", id, reply)
       ELSE /\ jsObj' = [jsObj EXCEPT ![id].status = DispatchStatus(id, reply)]
            /\ jsReply' = [jsReply EXCEPT ![id] = reply]
            /\ jsRet' = jsRet
            /\ jsPc' = [jsPc EXCEPT ![id] = "replied"]
            /\ jsSent' = jsSent
            /\ last' = Step("js-reply", 0, id, FALSE)
    /\ posted' = DispatchEvents(id, reply)
    /\ UNCHANGED <<sub, cases, problem, sessVars, hObj, regVars, pending, now,
                   tcLog, torn>>

\* judge_submission, lines 80-81: the object is saved and the success flag
\* returned.
judge_submission_end(id) ==
    /\ jsPc[id] = "replied"
    /\ sub' = Saved(id, jsObj[id])
    /\ jsObj' = [jsObj EXCEPT ![id] = NewSubmission]
    /\ jsReply' = [jsReply EXCEPT ![id] = NoReply]
    /\ jsRet' = [jsRet EXCEPT ![id] = DispatchReturn(jsReply[id])]
    /\ jsSent' = [jsSent EXCEPT ![id] = "None"]
    /\ jsPc' = [jsPc EXCEPT ![id] = "idle"]
    /\ posted' = <<>>
    /\ last' = [DispatchStep("judge-submission", id, jsReply[id])
                   EXCEPT !.out = DispatchEvents(id, jsReply[id])]
    /\ UNCHANGED <<cases, problem, sessVars, hObj, regVars, pending, now, tcLog,
                   torn>>

\* The bridge hands a received submission to a connected judge that works on
\* none: JudgeHandler.submit sets _working.
submit(s, id) ==
    /\ id \in pending
    /\ live[s]
    /\ hObj[s].op \notin {"connect", "close"}
    /\ working[s] = 0
    /\ working' = [working EXCEPT ![s] = id]
    /\ pending' = pending \ {id}
    /\ posted' = <<>>
    /\ last' = Step("submit", s, id, FALSE)
    /\ UNCHANGED <<sub, cases, problem, live, name, in_batch, batch_id,
                   update_counter, executors, handshaken, hObj, regVars, jsPc, jsReply, jsObj, jsRet,
                   jsSent, now, tcLog,
                   torn>>

\* -------------------------------------------------------- packet handlers
\* What every handler leaves alone: the registry, the dispatcher, the clock.
HandlerFrame ==
    UNCHANGED <<problem, live, name, executors, handshaken, regVars, jsVars, now, torn>>

\* The line of the save that follows Submission.objects.get in the handler
\* of a packet; in on_grading_end the rows are read first.
AfterGet(op) ==
    CASE op = "processing" -> 106
      [] op = "grading-begin" -> 127
      [] op = "test-case" -> 326
      [] op = "grading-end" -> 157
      [] op = "compile-error" -> 232
      [] op = "compile-message" -> 251
      [] op = "internal-error" -> 265
      [] op = "submission-terminated" -> 283

\* The packets whose base handler (JudgeHandler.on_*) frees the session.
FreeingOps ==
    {"grading-end", "compile-error", "internal-error", "submission-terminated"}

\* The session takes a packet: the base handler runs, then the first
\* database statement of the handler, Submission.objects.get(id=...), reads
\* the row into an object; for an id without a row the handler logs a warning
\* and returns.
Receive(s, op, id, pkt) ==
    /\ Ready(s)
    /\ working' = IF op \in FreeingOps THEN FreeSelf(s) ELSE working
    /\ batch_id' = IF op \in {"grading-begin", "grading-end"}
                   THEN [batch_id EXCEPT ![s] = NoneVal]
                   ELSE batch_id
    /\ IF id \in SubIds
       THEN /\ hObj' = [hObj EXCEPT ![s] =
                          [op |-> op, pc |-> AfterGet(op), id |-> id,
                           obj |-> sub[id], pkt |-> pkt,
                           st |-> sub[id].status, rows |-> Len(cases[id]),
                           out |-> <<>>, sent |-> 0]]
            /\ last' = PacketStep(s, "running", id, pkt, sub[id].status,
                                  Len(cases[id]), FALSE)
       ELSE /\ hObj' = hObj
            /\ last' = PacketStep(s, op, id, pkt, "None", 0, FALSE)
    /\ posted' = <<>>
    /\ HandlerFrame
    /\ UNCHANGED <<sub, cases, in_batch, update_counter, tcLog>>

\* on_submission_processing with its events passed through the limiter
OnSubmissionProcessingRateLimited(s, found) ==
    /\ At(s, "processing", 106)
    /\ LET rl == RateLimit(update_counter[s][hObj[s].id], now)
       IN  /\ sub' = Saved(hObj[s].id,
                           [hObj[s].obj EXCEPT
                               !.judged_on = IF found THEN name[s] ELSE @,
                               !.status = "P"])
           /\ update_counter' = [update_counter EXCEPT ![s][hObj[s].id] = rl.c]
           /\ Posts(s, 107, IF rl.post
                            THEN PostBoth(hObj[s].id, "processing", "processing")
                            ELSE <<>>)
    /\ posted' = <<>>
    /\ HandlerFrame
    /\ UNCHANGED <<cases, working, in_batch, batch_id, tcLog>>

\* on_submission_processing, lines 99-106: the object is saved with status
\* P; the events of lines 107-112 follow.  found: Judge.objects.get finds a
\* row with the session's name; without one (DoesNotExist) judged_on stays
\* as it was read.
on_submission_processing(s, found) ==
    /\ At(s, "processing", 106)
    /\ sub' = Saved(hObj[s].id,
                    [hObj[s].obj EXCEPT
                        !.judged_on = IF found THEN name[s] ELSE @,
                        !.status = "P"])
    /\ posted' = <<>>
    /\ Posts(s, 107,
             PostBoth(hObj[s].id, "processing", "processing"))
    /\ HandlerFrame
    /\ UNCHANGED <<cases, working, in_batch, batch_id, update_counter, tcLog>>

\* on_grading_begin, lines 122-127: the object is saved with the fields of
\* a starting run.
on_grading_begin(s) ==
    /\ At(s, "grading-begin", 127)
    /\ sub' = Saved(hObj[s].id,
                    [hObj[s].obj EXCEPT !.status = "G",
                                        !.is_pretested = hObj[s].pkt,
                                        !.current_testcase = 1,
                                        !.batch = FALSE])
    /\ hObj' = Goto(s, 128)
    /\ posted' = <<>>
    /\ last' = FrameStep(s, "running", FALSE)
    /\ HandlerFrame
    /\ UNCHANGED <<cases, working, in_batch, batch_id, update_counter, tcLog>>

\* on_grading_begin that keeps the rows of an earlier run (line 128 dropped)
OnGradingBeginKeepsRows(s) ==
    /\ At(s, "grading-begin", 128)
    /\ cases' = cases
    /\ posted' = <<>>
    /\ Posts(s, 129,
             PostBoth(hObj[s].id, "grading-begin", "grading-begin"))
    /\ HandlerFrame
    /\ UNCHANGED <<sub, working, in_batch, batch_id, update_counter, tcLog>>

\* on_grading_begin deleting the rows of every submission
OnGradingBeginClearsAllRows(s) ==
    /\ At(s, "grading-begin", 128)
    /\ cases' = [i \in SubIds |-> <<>>]
    /\ posted' = <<>>
    /\ Posts(s, 129,
             PostBoth(hObj[s].id, "grading-begin", "grading-begin"))
    /\ HandlerFrame
    /\ UNCHANGED <<sub, working, in_batch, batch_id, update_counter, tcLog>>

\* on_grading_begin, line 128: the rows of the submission are deleted; the
\* events of lines 129-134 follow.
on_grading_begin_delete(s) ==
    /\ At(s, "grading-begin", 128)
    /\ cases' = [cases EXCEPT ![hObj[s].id] = <<>>]
    /\ posted' = <<>>
    /\ Posts(s, 129,
             PostBoth(hObj[s].id, "grading-begin", "grading-begin"))
    /\ HandlerFrame
    /\ UNCHANGED <<sub, working, in_batch, batch_id, update_counter, tcLog>>

\* JudgeHandler.on_batch_begin: the session enters a batch; the first batch
\* of a run calls _submission_is_batch, whose Submission.objects.get (line
\* 137) raises for an unknown id after batch_id became 0.
on_batch_begin(s, id) ==
    /\ Ready(s)
    /\ in_batch' = [in_batch EXCEPT ![s] = TRUE]
    /\ IF batch_id[s] = NoneVal
       THEN /\ batch_id' = [batch_id EXCEPT ![s] = 0]
            /\ IF id \in SubIds
               THEN /\ hObj' = [hObj EXCEPT ![s] =
                                  [op |-> "batch-begin", pc |-> 139, id |-> id,
                                   obj |-> sub[id], pkt |-> NoneVal,
                                   st |-> sub[id].status,
                                   rows |-> Len(cases[id]),
                                   out |-> <<>>, sent |-> 0]]
                    /\ last' = PacketStep(s, "running", id, NoneVal,
                                          sub[id].status, Len(cases[id]), FALSE)
               ELSE /\ hObj' = hObj
                    /\ last' = Step("batch-begin", s, id, TRUE)
       ELSE /\ batch_id' = [batch_id EXCEPT ![s] = @ + 1]
            /\ hObj' = hObj
            /\ last' = Step("batch-begin", s, id, FALSE)
    /\ posted' = <<>>
    /\ HandlerFrame
    /\ UNCHANGED <<sub, cases, working, update_counter, tcLog>>

\* _submission_is_batch, lines 138-139: the object is saved with the batch
\* flag set; on_batch_begin then counts the batch.
submission_is_batch(s) ==
    /\ At(s, "batch-begin", 139)
    /\ sub' = Saved(hObj[s].id, [hObj[s].obj EXCEPT !.batch = TRUE])
    /\ batch_id' = [batch_id EXCEPT ![s] = @ + 1]
    /\ hObj' = Return(s)
    /\ posted' = <<>>
    /\ last' = Returns(s, <<>>)
    /\ HandlerFrame
    /\ UNCHANGED <<cases, working, in_batch, update_counter, tcLog>>

on_batch_end(s, id) ==
    /\ Ready(s)
    /\ in_batch' = [in_batch EXCEPT ![s] = FALSE]
    /\ posted' = <<>>
    /\ last' = Step("batch-end", s, id, FALSE)
    /\ HandlerFrame
    /\ UNCHANGED <<sub, cases, working, batch_id, update_counter, hObj, tcLog>>

\* The row on_test_case stores.
\* the row carrying the session's batch id outside a batch as well
TestCaseRowAlwaysBatch(s, position, status, time, memory, points, total) ==
    [case |-> position, status |-> DecodeStatus(status), time |-> time,
     memory |-> memory, points |-> points, total |-> total,
     batch |-> batch_id[s]]

\* on_test_case, lines 301-324: the row created for the packet.
TestCaseRow(s, position, status, time, memory, points, total) ==
    [case |-> position, status |-> DecodeStatus(status), time |-> time,
     memory |-> memory, points |-> points, total |-> total,
     batch |-> IF in_batch[s] THEN batch_id[s] ELSE NoneVal]

\* The payload of a test-case packet.
TestCasePacket(position, status, time, memory, points, total) ==
    [position |-> position, status |-> status, time |-> time,
     memory |-> memory, points |-> points, total |-> total]

\* on_test_case, lines 325-326: the submission is saved with its cursor
\* behind the packet's position.
on_test_case(s) ==
    /\ At(s, "test-case", 326)
    /\ sub' = Saved(hObj[s].id,
                    [hObj[s].obj EXCEPT
                        !.current_testcase = hObj[s].pkt.position + 1])
    /\ hObj' = Goto(s, 327)
    /\ posted' = <<>>
    /\ last' = FrameStep(s, "running", FALSE)
    /\ HandlerFrame
    /\ UNCHANGED <<cases, working, in_batch, batch_id, update_counter, tcLog>>

\* on_test_case storing a row only for a packet whose event is published
OnTestCaseStoresPublishedOnly(s) ==
    /\ At(s, "test-case", 327)
    /\ LET id == hObj[s].id
           p == hObj[s].pkt
           rl == RateLimit(update_counter[s][id], now)
       IN  /\ cases' = IF rl.post
                       THEN [cases EXCEPT ![id] =
                               Append(@, TestCaseRow(s, p.position, p.status,
                                                     p.time, p.memory, p.points,
                                                     p.total))]
                       ELSE cases
           /\ update_counter' = [update_counter EXCEPT ![s][id] = rl.c]
           /\ Posts(s, 344, IF rl.post
                            THEN PostBoth(id, "test-case", "test-case")
                            ELSE <<>>)
           /\ tcLog' = [tcLog EXCEPT ![s][id] =
                          Append(@, [t |-> now, pub |-> rl.post])]
    /\ posted' = <<>>
    /\ HandlerFrame
    /\ UNCHANGED <<sub, working, in_batch, batch_id>>

\* on_test_case, lines 327-341: the row is stored and the limiter counts
\* the packet; the events of lines 344-358 follow unless it drops them.
on_test_case_row(s) ==
    /\ At(s, "test-case", 327)
    /\ LET id == hObj[s].id
           p == hObj[s].pkt
           rl == RateLimit(update_counter[s][id], now)
       IN  /\ cases' = [cases EXCEPT ![id] =
                          Append(@, TestCaseRow(s, p.position, p.status, p.time,
                                                p.memory, p.points, p.total))]
           /\ update_counter' = [update_counter EXCEPT ![s][id] = rl.c]
           /\ Posts(s, 344, IF rl.post
                            THEN PostBoth(id, "test-case", "test-case")
                            ELSE <<>>)
           /\ tcLog' = [tcLog EXCEPT ![s][id] =
                          Append(@, [t |-> now, pub |-> rl.post])]
    /\ posted' = <<>>
    /\ HandlerFrame
    /\ UNCHANGED <<sub, working, in_batch, batch_id>>

\* The events on_grading_end posts.
GradingEndEvents(id) ==
    <<Event("sub", id, "grading-end")>>
    \o (IF problem[id].in_contest THEN <<Event("contest", id, "update")>> ELSE <<>>)
    \o (IF problem[id].is_public
        THEN <<Event("submissions", id, "done-submission")>> ELSE <<>>)

\* on_grading_end, lines 149-178: the stored rows are read and aggregated.
on_grading_end_rows(s) ==
    /\ At(s, "grading-end", 157)
    /\ hObj' = [hObj EXCEPT ![s].pc = 191,
                            ![s].pkt = Aggregate(cases[hObj[s].id])]
    /\ posted' = <<>>
    /\ last' = FrameStep(s, "running", FALSE)
    /\ HandlerFrame
    /\ UNCHANGED <<sub, cases, working, in_batch, batch_id, update_counter,
                   tcLog>>

\* on_grading_end, lines 179-191: the object is saved with the aggregated
\* values, the points and status Done.
on_grading_end(s) ==
    /\ At(s, "grading-end", 191)
    /\ \E agg \in {hObj[s].pkt}, pr \in {problem[hObj[s].id]} :
          sub' = Saved(hObj[s].id,
                       [hObj[s].obj EXCEPT
                           !.case_points = agg.points,
                           !.case_total = agg.total,
                           !.status = "D",
                           !.time = agg.time,
                           !.memory = agg.memory,
                           !.points = FinalPoints(agg.points, agg.total,
                                                  pr.points, pr.partial),
                           !.result = status_codes[agg.status + 1]])
    /\ hObj' = Goto(s, 200)
    /\ posted' = <<>>
    /\ last' = FrameStep(s, "running", FALSE)
    /\ HandlerFrame
    /\ UNCHANGED <<cases, working, in_batch, batch_id, update_counter, tcLog>>

\* on_grading_end, lines 193-204: the points of a contest submission are
\* saved on its ContestSubmission row; the events of lines 206-221 follow.
on_grading_end_contest(s) ==
    /\ At(s, "grading-end", 200)
    /\ \E agg \in {hObj[s].pkt}, pr \in {problem[hObj[s].id]} :
          sub' = IF pr.in_contest
                 THEN [sub EXCEPT ![hObj[s].id].contest_points =
                          FinalPoints(agg.points, agg.total, pr.contest_points,
                                      pr.contest_partial)]
                 ELSE sub
    /\ posted' = <<>>
    /\ Posts(s, 206, GradingEndEvents(hObj[s].id))
    /\ HandlerFrame
    /\ UNCHANGED <<cases, working, in_batch, batch_id, update_counter, tcLog>>

\* on_compile_error, lines 230-232: the object is saved; the events of lines
\* 233-241 follow.
on_compile_error(s) ==
    /\ At(s, "compile-error", 232)
    /\ sub' = Saved(hObj[s].id,
                    [hObj[s].obj EXCEPT !.status = "CE", !.result = "CE",
                                        !.error = hObj[s].pkt])
    /\ posted' = <<>>
    /\ Posts(s, 233,
             PostBoth(hObj[s].id, "compile-error", "compile-error"))
    /\ HandlerFrame
    /\ UNCHANGED <<cases, working, in_batch, batch_id, update_counter, tcLog>>

\* on_compile_message, lines 250-251: the object is saved with the log; the
\* event of line 252 follows.
on_compile_message(s) ==
    /\ At(s, "compile-message", 251)
    /\ sub' = Saved(hObj[s].id, [hObj[s].obj EXCEPT !.error = hObj[s].pkt])
    /\ posted' = <<>>
    /\ Posts(s, 252,
             <<Event("sub", hObj[s].id, "compile-message")>>)
    /\ HandlerFrame
    /\ UNCHANGED <<cases, working, in_batch, batch_id, update_counter, tcLog>>

\* on_internal_error, lines 263-265: the object is saved; the events of lines
\* 266-273 follow.
on_internal_error(s) ==
    /\ At(s, "internal-error", 265)
    /\ sub' = Saved(hObj[s].id,
                    [hObj[s].obj EXCEPT !.status = "IE", !.result = "IE",
                                        !.error = hObj[s].pkt])
    /\ posted' = <<>>
    /\ Posts(s, 266,
             PostBoth(hObj[s].id, "internal-error", "internal-error"))
    /\ HandlerFrame
    /\ UNCHANGED <<cases, working, in_batch, batch_id, update_counter, tcLog>>

\* on_submission_terminated, lines 282-285: the object is saved; the events
\* of lines 286-291 follow for a public problem, none at all otherwise.
on_submission_terminated(s) ==
    /\ At(s, "submission-terminated", 283)
    /\ sub' = Saved(hObj[s].id,
                    [hObj[s].obj EXCEPT !.status = "AB", !.result = "AB"])
    /\ posted' = <<>>
    /\ Posts(s, 286,
             IF problem[hObj[s].id].is_public
                    THEN <<Event("sub", hObj[s].id, "aborted-submission"),
                           Event("submissions", hObj[s].id, "terminated")>>
                    ELSE <<>>)
    /\ HandlerFrame
    /\ UNCHANGED <<cases, working, in_batch, batch_id, update_counter, tcLog>>

\* The clock advances by one tick.
Tick ==
    /\ now < MaxTime
    /\ now' = now + 1
    /\ posted' = <<>>
    /\ last' = Step("tick", 0, 0, FALSE)
    /\ UNCHANGED <<sub, cases, problem, sessVars, hObj, regVars, jsVars, tcLog,
                   torn>>

\* An exception: the name of its class, the module of the class, its args,
\* and whether the class derives from Exception.
Raised(cls, module, args, is_exception) ==
    [cls |-> cls, module |-> module, args |-> args, is_exception |-> is_exception]

\* The update raises nothing.
NoFailure == Raised("none", "none", <<>>, TRUE)

\* _update_ping, lines 85-90: what becomes of the update.  "stored": it
\* raised nothing; "raised": the exception is no Exception and passes the
\* except clause; "IndexError": e.args[0] of line 89 is read on empty args
\* and raises; "reconnected": MySQL's error 2006, the database connection is
\* closed, which the next query opens again; "dropped": any other exception
\* is caught and nothing is done.
PingOutcome(failure) ==
    IF failure = NoFailure THEN "stored"
    ELSE IF ~failure.is_exception THEN "raised"
    ELSE IF failure.cls = "OperationalError" /\ failure.module = "_mysql_exceptions"
         THEN IF failure.args = <<>> THEN "IndexError"
              ELSE IF failure.args[1] = 2006 THEN "reconnected"
              ELSE "dropped"
    ELSE "dropped"

\* _update_ping: the judge's row receives the session's latency and load,
\* unless the update raises failure; an exception that is not caught, or
\* that line 89 raises, leaves the function.
update_ping(s, latency, load, failure) ==
    /\ Ready(s)
    /\ ping' = IF failure = NoFailure
               THEN [ping EXCEPT ![name[s]] = <<latency, load>>]
               ELSE ping
    /\ posted' = <<>>
    /\ last' = StepWith("ping", s, 0,
                        PingOutcome(failure) \in {"raised", "IndexError"},
                        failure.cls, latency)
    /\ UNCHANGED <<sub, cases, problem, sessVars, hObj, online, runtimes, judge_runtimes, jsVars, now,
                   tcLog, torn>>
\* ------------------------------------------------------ the environment
\* What a specification lets the judges and the site still do: packets to
\* send, calls of judge_submission to make, connections to open.  NoneVal
\* stands for no bound of the kind: such a specification bounds its runs by
\* the rows and batches the judges send.
Spends(kind) ==
    IF budget[kind] = NoneVal THEN UNCHANGED budget
    ELSE budget[kind] > 0 /\ budget' = [budget EXCEPT ![kind] = @ - 1]

\* What Judge.objects.filter(...).update(...) can raise: the MySQL driver's
\* OperationalError with the code 2006, with another code and with no
\* argument, Django's exceptions, and KeyboardInterrupt, which is no
\* Exception.
Failures ==
    {NoFailure,
     Raised("OperationalError", "_mysql_exceptions", <<2006>>, TRUE),
     Raised("OperationalError", "_mysql_exceptions", <<1205>>, TRUE),
     Raised("OperationalError", "_mysql_exceptions", <<>>, TRUE),
     Raised("OperationalError", "django.db.utils", <<2006>>, TRUE),
     Raised("IntegrityError", "django.db.utils", <<1062>>, TRUE),
     Raised("KeyboardInterrupt", "exceptions", <<>>, FALSE)}

\* The executors a judge declares at its handshake: none, one language with
\* one runtime, two languages of which one has two runtimes, a language the
\* site does not have, and a language with an empty list.
Python == <<Runtime("python", <<2, 7, 18>>)>>
Pythons == <<Runtime("python", <<2, 7, 18>>), Runtime("pypy", <<7, 3>>)>>
Gcc == <<Runtime("gcc", <<10>>)>>
PlainExecutors == {[k \in {"PY"} |-> Python]}
RegistryExecutors ==
    {NoExecutors,
     [k \in {"PY"} |-> Python],
     [k \in {"PY", "C"} |-> IF k = "PY" THEN Pythons ELSE Gcc],
     [k \in {"XX"} |-> Gcc],
     [k \in {"C"} |-> <<>>]}
Latencies == {1, 2}
Loads == {3}
Logs == {"log"}
TwoLogs == {"log", "other log"}

\* What can happen to the dispatcher's request, and the replies a
\* coordinator may send: <<name, submission id>>.
Outcomes == {"refused", "timeout", "closed", "garbage", "reply"}
PlainResponses == {<<"submission-received", 1>>, <<"other", 1>>}
Responses ==
    {<<n, i>> : n \in {"submission-received", "other", "None"},
                i \in SubIds \cup {NoneVal}}
PlainReplies ==
    {judge_request(o, r) : o \in {"refused", "closed", "reply"}, r \in PlainResponses}
\* The request is refused or acknowledged.
LiveReplies ==
    {judge_request("refused", <<"other", 1>>),
     judge_request("reply", <<"submission-received", 1>>)}
\* The replies of a coordinator that may leave out the 'name' key.
RaceReplies ==
    {judge_request("reply", r) : r \in PlainResponses \cup {<<"None", 1>>}}
Replies == {judge_request(o, r) : o \in Outcomes, r \in Responses}
\* What the socket can deliver: any part of the prefix, and after a whole
\* prefix any part of the declared payload.  The bytes delivered are a
\* whole zlib stream of a JSON document or not, whether they are as many
\* as the prefix declares or fewer; no bytes are no stream.
Wires ==
    {w \in [prefix : 0..SIZE_PACK, length : 0..MaxFrame, got : 0..MaxFrame,
            valid : BOOLEAN] :
        /\ w.got <= w.length
        /\ w.prefix < SIZE_PACK => w.length = 0
        /\ w.got = 0 => ~w.valid}
WireReplies == {judge_request_on(w, r) : w \in Wires, r \in PlainResponses}
OneSession == {1}
Positions == 1..(MaxDecodeRows + 1)
OneSub == {1}

\* Payloads of test-case packets: <<points, total>> in hundredths.
PlainPoints == {<<500, 500>>}
ScorePoints == {<<300, 500>>, <<500, 500>>, <<450, 500>>, <<15, 40>>}
PlainMasks == {0}

\* The row position a judge sends next for a stored submission.
NextPosition(id) == IF id \in SubIds THEN Len(cases[id]) + 1 ELSE 1

\* The judges send at most n rows per grading run and per connection.
RoomForCase(s, id, n) ==
    id \in SubIds => Len(cases[id]) < n /\ Len(tcLog[s][id]) < n

JudgeConnects(SS, EE) ==
    /\ \E s \in SS, j \in JudgeNames, execs \in EE : Connect(s, j, execs)
    /\ Spends("connects")

ConnectRuns(SS) ==
    /\ \E s \in SS :
          \/ ConnectedRuntimes(s)
          \/ ConnectedQuery(s)
          \/ ConnectedCreate(s)
          \/ Connected(s)
    /\ UNCHANGED budget

SupportedProblems(SS) ==
    /\ \E s \in SS : on_supported_problems_get(s)
    /\ Spends("packets")

SupportedProblemsRuns(SS) ==
    /\ \E s \in SS : on_supported_problems(s)
    /\ UNCHANGED budget

JudgeCloses(SS) ==
    /\ \E s \in SS : on_close_update(s)
    /\ UNCHANGED budget

CloseDeletes(SS) ==
    /\ \E s \in SS : on_close_delete(s)
    /\ UNCHANGED budget

CloseRuns(SS) ==
    /\ \E s \in SS : on_close_get(s) \/ on_close(s)
    /\ UNCHANGED budget

Dispatches(II) ==
    /\ \E id \in II : judge_submission_get(id)
    /\ Spends("calls")

DispatchRuns(II, RR) ==
    /\ \E id \in II :
           \/ judge_submission_save(id)
           \/ judge_submission_delete(id)
           \/ \E reach \in BOOLEAN : judge_submission_request(id, reach)
           \/ \E reply \in RR : judge_submission_reply(id, reply)
           \/ judge_submission_end(id)
    /\ UNCHANGED budget

BridgeSubmits(SS, II) ==
    /\ \E s \in SS, id \in II : submit(s, id)
    /\ UNCHANGED budget

Pings(SS) ==
    /\ \E s \in SS, la \in Latencies, lo \in Loads, f \in Failures :
           update_ping(s, la, lo, f)
    /\ Spends("packets")

RecvProcessing(SS, II) ==
    /\ \E s \in SS, id \in II : Receive(s, "processing", id, NoneVal)
    /\ Spends("packets")

RunsProcessing(SS, FF) ==
    /\ \E s \in SS, found \in FF : on_submission_processing(s, found)
    /\ UNCHANGED budget

RecvGradingBegin(SS, II, PRE) ==
    /\ \E s \in SS, id \in II, pre \in PRE : Receive(s, "grading-begin", id, pre)
    /\ Spends("packets")

RunsGradingBegin(SS) ==
    /\ \E s \in SS : on_grading_begin(s) \/ on_grading_begin_delete(s)
    /\ UNCHANGED budget

RecvBatchBegin(SS, II) ==
    /\ \E s \in SS, id \in II : batch_id[s] < MaxBatches /\ on_batch_begin(s, id)
    /\ Spends("packets")

RunsBatchBegin(SS) ==
    /\ \E s \in SS : submission_is_batch(s)
    /\ UNCHANGED budget

RecvBatchEnd(SS, II) ==
    /\ \E s \in SS, id \in II : in_batch[s] /\ on_batch_end(s, id)
    /\ Spends("packets")

RecvTestCase(SS, II, MM, PP, n) ==
    /\ \E s \in SS, id \in II, m \in MM, p \in PP :
           /\ RoomForCase(s, id, n)
           /\ Receive(s, "test-case", id,
                      TestCasePacket(NextPosition(id), m, 0, 0, p[1], p[2]))
    /\ Spends("packets")

\* A test-case packet with any position, whatever rows are stored.
RecvTestCaseAt(SS, II, POS, n) ==
    /\ \E s \in SS, id \in II, position \in POS, p \in PlainPoints :
           /\ RoomForCase(s, id, n)
           /\ Receive(s, "test-case", id,
                      TestCasePacket(position, 0, 0, 0, p[1], p[2]))
    /\ Spends("packets")

RunsTestCase(SS) ==
    /\ \E s \in SS : on_test_case(s) \/ on_test_case_row(s)
    /\ UNCHANGED budget

RecvGradingEnd(SS, II) ==
    /\ \E s \in SS, id \in II : Receive(s, "grading-end", id, NoneVal)
    /\ Spends("packets")

RunsGradingEnd(SS) ==
    /\ \E s \in SS :
           on_grading_end_rows(s) \/ on_grading_end(s) \/ on_grading_end_contest(s)
    /\ UNCHANGED budget

RecvCompileError(SS, II, LL) ==
    /\ \E s \in SS, id \in II, log \in LL : Receive(s, "compile-error", id, log)
    /\ Spends("packets")

RunsCompileError(SS) ==
    /\ \E s \in SS : on_compile_error(s)
    /\ UNCHANGED budget

RecvCompileMessage(SS, II, LL) ==
    /\ \E s \in SS, id \in II, log \in LL : Receive(s, "compile-message", id, log)
    /\ Spends("packets")

RunsCompileMessage(SS) ==
    /\ \E s \in SS : on_compile_message(s)
    /\ UNCHANGED budget

RecvInternalError(SS, II, LL) ==
    /\ \E s \in SS, id \in II, log \in LL : Receive(s, "internal-error", id, log)
    /\ Spends("packets")

RunsInternalError(SS) ==
    /\ \E s \in SS : on_internal_error(s)
    /\ UNCHANGED budget

RecvTerminated(SS, II) ==
    /\ \E s \in SS, id \in II : Receive(s, "submission-terminated", id, NoneVal)
    /\ Spends("packets")

RunsTerminated(SS) ==
    /\ \E s \in SS : on_submission_terminated(s)
    /\ UNCHANGED budget

\* A handler posts the next of its events.
Posting(SS) ==
    /\ \E s \in SS : event_post(s)
    /\ UNCHANGED budget

\* ------------------------------------------------------ the whole system
\* One judge connection at a time and the dispatcher work on submission 1,
\* the statements of the two in any order: a handler of the session and a
\* call of judge_submission overlap wherever the two threads allow it.  The
\* judge sends at most MaxSent packets, in any order and of the kinds that
\* store a status or a row, the site dispatches at most MaxCalls times, and
\* at most MaxConnects connections are opened.
SpecIds == OneSub \cup {UnknownId}

Next ==
    \/ JudgeConnects(OneSession, PlainExecutors)
    \/ ConnectRuns(OneSession)
    \/ JudgeCloses(OneSession)
    \/ CloseDeletes(OneSession)
    \/ CloseRuns(OneSession)
    \/ Dispatches(OneSub)
    \/ DispatchRuns(OneSub, PlainReplies)
    \/ BridgeSubmits(OneSession, OneSub)
    \/ RecvProcessing(OneSession, OneSub)
    \/ RunsProcessing(OneSession, {TRUE})
    \/ RecvGradingBegin(OneSession, OneSub, {TRUE})
    \/ RunsGradingBegin(OneSession)
    \/ RecvTestCase(OneSession, OneSub, PlainMasks, PlainPoints, MaxRows)
    \/ RunsTestCase(OneSession)
    \/ RecvGradingEnd(OneSession, OneSub)
    \/ RunsGradingEnd(OneSession)
    \/ RecvCompileError(OneSession, OneSub, Logs)
    \/ RunsCompileError(OneSession)
    \/ RecvInternalError(OneSession, OneSub, Logs)
    \/ RunsInternalError(OneSession)
    \/ Posting(OneSession)

Spec == Init /\ [][Next]_vars

\* ---------------------------------------------------------- unknown ids
\* One judge connection grades submission 1, with batches, and sends every
\* kind of packet for an id that matches no stored submission.
OnlyUnknown == {UnknownId}

NextUnknown ==
    \/ JudgeConnects(OneSession, PlainExecutors)
    \/ ConnectRuns(OneSession)
    \/ RecvProcessing(OneSession, OnlyUnknown)
    \/ RecvGradingBegin(OneSession, SpecIds, {TRUE})
    \/ RunsGradingBegin(OneSession)
    \/ RecvBatchBegin(OneSession, SpecIds)
    \/ RunsBatchBegin(OneSession)
    \/ RecvBatchEnd(OneSession, SpecIds)
    \/ RecvTestCase(OneSession, SpecIds, PlainMasks, PlainPoints, MaxRows)
    \/ RunsTestCase(OneSession)
    \/ RecvGradingEnd(OneSession, SpecIds)
    \/ RunsGradingEnd(OneSession)
    \/ RecvCompileError(OneSession, OnlyUnknown, Logs)
    \/ RecvCompileMessage(OneSession, OnlyUnknown, Logs)
    \/ RecvInternalError(OneSession, OnlyUnknown, Logs)
    \/ RecvTerminated(OneSession, OnlyUnknown)
    \/ Posting(OneSession)

SpecUnknown == InitRun /\ [][NextUnknown]_vars

\* ---------------------------------------------------------------- events
\* One judge connection and the dispatcher work on submission 1, whose
\* problem is public or not, as drawn at the start; the packets carry two
\* different logs.  The statements of the handlers and of judge_submission
\* run in any order; the judge sends at most FewSent packets and the site
\* dispatches at most OneCall times.
InitFeed ==
    /\ InitSessions
    /\ InitStore
    /\ budget = Budget(FewSent, OneCall, OneConnect)
    /\ \E pub \in BOOLEAN :
          problem = [i \in SubIds |->
                        ProblemSettings(pub, TRUE, 1000, TRUE, 800, TRUE, TRUE)]

NextFeed ==
    \/ JudgeConnects(OneSession, PlainExecutors)
    \/ ConnectRuns(OneSession)
    \/ Dispatches(OneSub)
    \/ DispatchRuns(OneSub, PlainReplies)
    \/ RecvProcessing(OneSession, OneSub)
    \/ RunsProcessing(OneSession, {TRUE})
    \/ RecvGradingBegin(OneSession, OneSub, BOOLEAN)
    \/ RunsGradingBegin(OneSession)
    \/ RecvTestCase(OneSession, OneSub, PlainMasks, PlainPoints, MaxRows)
    \/ RunsTestCase(OneSession)
    \/ RecvGradingEnd(OneSession, OneSub)
    \/ RunsGradingEnd(OneSession)
    \/ RecvCompileError(OneSession, OneSub, TwoLogs)
    \/ RunsCompileError(OneSession)
    \/ RecvCompileMessage(OneSession, OneSub, TwoLogs)
    \/ RunsCompileMessage(OneSession)
    \/ RecvInternalError(OneSession, OneSub, TwoLogs)
    \/ RunsInternalError(OneSession)
    \/ RecvTerminated(OneSession, OneSub)
    \/ RunsTerminated(OneSession)
    \/ Posting(OneSession)

SpecFeed == InitFeed /\ [][NextFeed]_vars

\* -------------------------------------------------------------- dispatch
\* The dispatcher sends submission 1 again and again and meets every
\* outcome of its request; one judge connection works on the submission.
\* The statements of the handlers and of judge_submission run in any order,
\* within the budget of InitDispatch.
InitDispatch == InitWith(Budget(FewSent, MaxCalls, OneConnect))

NextDispatch ==
    \/ JudgeConnects(OneSession, PlainExecutors)
    \/ ConnectRuns(OneSession)
    \/ JudgeCloses(OneSession)
    \/ CloseDeletes(OneSession)
    \/ CloseRuns(OneSession)
    \/ Dispatches(OneSub)
    \/ DispatchRuns(OneSub, Replies)
    \/ BridgeSubmits(OneSession, OneSub)
    \/ RecvProcessing(OneSession, OneSub)
    \/ RunsProcessing(OneSession, {TRUE})
    \/ RecvGradingBegin(OneSession, OneSub, {TRUE})
    \/ RunsGradingBegin(OneSession)
    \/ RecvGradingEnd(OneSession, OneSub)
    \/ RunsGradingEnd(OneSession)
    \/ RecvCompileError(OneSession, OneSub, Logs)
    \/ RunsCompileError(OneSession)
    \/ RecvInternalError(OneSession, OneSub, Logs)
    \/ RunsInternalError(OneSession)
    \/ RecvTerminated(OneSession, OneSub)
    \/ RunsTerminated(OneSession)
    \/ Posting(OneSession)

SpecDispatch == InitDispatch /\ [][NextDispatch]_vars

\* ------------------------------------------------------------- scoring
\* One judge grades submission 1 as the protocol prescribes: grading-begin,
\* then batches and rows with varied points, then grading-end, and again.
\* The problem is worth 10 points and the contest problem 8; which of the
\* two allows partial credit is drawn at the start.  Rows of 0.15 out of 0.4
\* give sums and quotients halfway between two tenths, where the float
\* arithmetic of on_grading_end decides the rounding.
InitScore ==
    /\ InitSessions
    /\ InitStore
    /\ budget = Unbounded
    /\ \E part \in BOOLEAN :
          problem = [i \in SubIds |->
                        ProblemSettings(TRUE, part, 1000, TRUE, 800, ~part, FALSE)]

Grading(id) == sub[id].status = "G"

NextScore ==
    \/ JudgeConnects(OneSession, PlainExecutors)
    \/ ConnectRuns(OneSession)
    \/ ~Grading(1) /\ RecvGradingBegin(OneSession, OneSub, {TRUE})
    \/ RunsGradingBegin(OneSession)
    \/ Grading(1) /\ RecvBatchBegin(OneSession, OneSub)
    \/ RunsBatchBegin(OneSession)
    \/ Grading(1) /\ RecvBatchEnd(OneSession, OneSub)
    \/ Grading(1) /\ RecvTestCase(OneSession, OneSub, PlainMasks, ScorePoints, MaxScoreRows)
    \/ RunsTestCase(OneSession)
    \/ Grading(1) /\ RecvGradingEnd(OneSession, OneSub)
    \/ RunsGradingEnd(OneSession)
    \/ Posting(OneSession)

SpecScore == InitScore /\ [][NextScore]_vars

\* ------------------------------------------------------ status decoding
\* One judge grades submission 1 and reports every status bitmask up to
\* MaxMask on its test cases.
NextDecode ==
    \/ JudgeConnects(OneSession, PlainExecutors)
    \/ ConnectRuns(OneSession)
    \/ ~Grading(1) /\ RecvGradingBegin(OneSession, OneSub, {TRUE})
    \/ RunsGradingBegin(OneSession)
    \/ Grading(1) /\ RecvTestCase(OneSession, OneSub, 0..MaxMask, PlainPoints,
                                   MaxDecodeRows)
    \/ RunsTestCase(OneSession)
    \/ Grading(1) /\ RecvGradingEnd(OneSession, OneSub)
    \/ RunsGradingEnd(OneSession)
    \/ Posting(OneSession)

SpecDecode == InitRun /\ [][NextDecode]_vars

\* -------------------------------------------------------- rate limiting
\* One judge sends test-case packets for submission 1 while time passes.
NextRate ==
    \/ JudgeConnects(OneSession, PlainExecutors)
    \/ ConnectRuns(OneSession)
    \/ RecvTestCase(OneSession, OneSub, PlainMasks, PlainPoints, MaxPackets)
    \/ RunsTestCase(OneSession)
    \/ Tick /\ UNCHANGED budget
    \/ Posting(OneSession)

SpecRate == InitRun /\ [][NextRate]_vars

\* ------------------------------------------------------------- liveness
\* The session was given a submission and is connected (self._working).
Assigned(s) == live[s] /\ working[s] # 0

\* The statements of the handler a session is in, up to its return.
Continues(s) ==
    /\ \/ ConnectedRuntimes(s)
       \/ ConnectedQuery(s)
       \/ ConnectedCreate(s)
       \/ Connected(s)
       \/ on_close_delete(s)
       \/ on_close_get(s)
       \/ on_close(s)
       \/ on_submission_processing(s, TRUE)
       \/ on_grading_begin(s)
       \/ on_grading_begin_delete(s)
       \/ on_grading_end_rows(s)
       \/ on_grading_end(s)
       \/ on_grading_end_contest(s)
       \/ on_compile_error(s)
       \/ on_internal_error(s)
       \/ on_submission_terminated(s)
       \/ event_post(s)
    /\ UNCHANGED budget

\* The statements of judge_submission up to its return: the save, the
\* delete, the request, its outcome (the bridge answers or the connection
\* fails) and the save after it.
DispatchContinues(id) ==
    /\ \/ judge_submission_save(id)
       \/ judge_submission_delete(id)
       \/ \E reach \in BOOLEAN : judge_submission_request(id, reach)
       \/ \E reply \in LiveReplies : judge_submission_reply(id, reply)
       \/ judge_submission_end(id)
    /\ UNCHANGED budget

InitLive == InitWith(Budget(FewSent, OneCall, OneConnect))

\* One session, the dispatcher and the bridge, their statements in any
\* order.  The judge sends the packets that move a submission to P and G and
\* the four that end a run, for submission 1 whether it was given to the
\* session or not, and closes when it will.
NextLive ==
    \/ JudgeConnects(OneSession, PlainExecutors)
    \/ JudgeCloses(OneSession)
    \/ Dispatches(OneSub)
    \/ DispatchRuns(OneSub, LiveReplies)
    \/ BridgeSubmits(OneSession, OneSub)
    \/ RecvProcessing(OneSession, OneSub)
    \/ RecvGradingBegin(OneSession, OneSub, {TRUE})
    \/ RecvGradingEnd(OneSession, OneSub)
    \/ RecvCompileError(OneSession, OneSub, Logs)
    \/ RecvInternalError(OneSession, OneSub, Logs)
    \/ RecvTerminated(OneSession, OneSub)
    \/ \E s \in OneSession : Continues(s)

\* A handler that has begun runs to its return and so does a call of
\* judge_submission: the threads of the bridge and of the site are
\* scheduled.  Nothing is assumed of the judges.
SpecLive ==
    /\ InitLive
    /\ [][NextLive]_vars
    /\ \A s \in OneSession : WF_vars(Continues(s))
    /\ \A id \in OneSub : WF_vars(DispatchContinues(id))

\* ------------------------------------------------------------ registry
\* Two sessions of one judge connect, declare their problems, report their
\* load and close, with every kind of executors, their statements in any
\* order.
RegistryPings(SS) ==
    /\ \E s \in SS : update_ping(s, s, 3, NoFailure)
    /\ Spends("packets")

NextRegistry ==
    \/ JudgeConnects(Sessions, RegistryExecutors)
    \/ ConnectRuns(Sessions)
    \/ SupportedProblems(Sessions)
    \/ SupportedProblemsRuns(Sessions)
    \/ RegistryPings(Sessions)
    \/ JudgeCloses(Sessions)
    \/ CloseDeletes(Sessions)

SpecRegistry == InitRun /\ [][NextRegistry]_vars

\* ------------------------------------------------------------ isolation
\* Which session grades which submission.
Assignments == {<<1, 1>>, <<2, 2>>}

\* Two submissions graded at the same time, each in the protocol's order,
\* with every interleaving of the statements of the two sessions.
\* Submission 1 receives every kind of packet, submission 2 a grading run
\* with at most one batch.
NextIsolation ==
    \/ JudgeConnects(Sessions, PlainExecutors)
    \/ ConnectRuns(Sessions)
    \/ ~Grading(1) /\ RecvProcessing(OneSession, OneSub)
    \/ RunsProcessing(OneSession, {TRUE})
    \/ \E a \in Assignments :
          ~Grading(a[2]) /\ RecvGradingBegin({a[1]}, {a[2]}, {TRUE})
    \/ RunsGradingBegin(Sessions)
    \/ Grading(2) /\ ~sub[2].batch /\ batch_id[2] = NoneVal
            /\ RecvBatchBegin({2}, {2})
    \/ RunsBatchBegin({2})
    \/ \E a \in Assignments :
          Grading(a[2]) /\ RecvTestCase({a[1]}, {a[2]}, PlainMasks, PlainPoints, MaxRows)
    \/ RunsTestCase(Sessions)
    \/ \E a \in Assignments : Grading(a[2]) /\ RecvGradingEnd({a[1]}, {a[2]})
    \/ RunsGradingEnd(Sessions)
    \/ ~Grading(1) /\ RecvCompileError(OneSession, OneSub, Logs)
    \/ RunsCompileError(OneSession)
    \/ Grading(1) /\ RecvCompileMessage(OneSession, OneSub, Logs)
    \/ RunsCompileMessage(OneSession)
    \/ ~Grading(1) /\ RecvInternalError(OneSession, OneSub, Logs)
    \/ RunsInternalError(OneSession)
    \/ Grading(1) /\ RecvTerminated(OneSession, OneSub)
    \/ RunsTerminated(OneSession)
    \/ Posting(Sessions)

SpecIsolation == InitRun /\ [][NextIsolation]_vars

\* ------------------------------------------------------------- request
\* The dispatcher on a socket that delivers any part of a reply frame, its
\* statements and those of the session's handlers in any order.
NextRequest ==
    \/ JudgeConnects(OneSession, PlainExecutors)
    \/ ConnectRuns(OneSession)
    \/ Dispatches(OneSub)
    \/ DispatchRuns(OneSub, WireReplies)
    \/ BridgeSubmits(OneSession, OneSub)
    \/ RecvProcessing(OneSession, OneSub)
    \/ RunsProcessing(OneSession, {TRUE})
    \/ RecvGradingBegin(OneSession, OneSub, {TRUE})
    \/ RunsGradingBegin(OneSession)
    \/ RecvGradingEnd(OneSession, OneSub)
    \/ RunsGradingEnd(OneSession)
    \/ Posting(OneSession)

SpecRequest == InitDispatch /\ [][NextRequest]_vars

\* ---------------------------------------------------------------- pings
\* A session whose ping updates fail in every way between its packets.
NextPing ==
    \/ JudgeConnects(OneSession, PlainExecutors)
    \/ ConnectRuns(OneSession)
    \/ JudgeCloses(OneSession)
    \/ CloseDeletes(OneSession)
    \/ Pings(OneSession)
    \/ RecvProcessing(OneSession, OneSub)
    \/ RunsProcessing(OneSession, {TRUE})
    \/ RecvGradingBegin(OneSession, OneSub, {TRUE})
    \/ RunsGradingBegin(OneSession)
    \/ RecvTestCase(OneSession, OneSub, PlainMasks, PlainPoints, MaxRows)
    \/ RunsTestCase(OneSession)
    \/ RecvGradingEnd(OneSession, OneSub)
    \/ RunsGradingEnd(OneSession)
    \/ Posting(OneSession)

SpecPing == InitRun /\ [][NextPing]_vars

\* ---------------------------------------------------------- persistence
\* One session sending more test-case packets in one window than the
\* limiter publishes, between packets of the other kinds.
NextPersist ==
    \/ JudgeConnects(OneSession, PlainExecutors)
    \/ ConnectRuns(OneSession)
    \/ RecvProcessing(OneSession, OneSub)
    \/ RunsProcessing(OneSession, {TRUE})
    \/ RecvGradingBegin(OneSession, OneSub, {TRUE})
    \/ RunsGradingBegin(OneSession)
    \/ RecvTestCase(OneSession, OneSub, PlainMasks, PlainPoints, MaxPackets)
    \/ RunsTestCase(OneSession)
    \/ RecvGradingEnd(OneSession, OneSub)
    \/ RunsGradingEnd(OneSession)
    \/ RecvCompileError(OneSession, OneSub, Logs)
    \/ RunsCompileError(OneSession)
    \/ RecvCompileMessage(OneSession, OneSub, Logs)
    \/ RunsCompileMessage(OneSession)
    \/ RecvInternalError(OneSession, OneSub, Logs)
    \/ RunsInternalError(OneSession)
    \/ Posting(OneSession)

SpecPersist == InitRun /\ [][NextPersist]_vars

\* --------------------------------------------------------------- cursor
\* A grading run with batches whose test-case packets carry any position.
NextCursor ==
    \/ JudgeConnects(OneSession, PlainExecutors)
    \/ ConnectRuns(OneSession)
    \/ ~Grading(1) /\ RecvGradingBegin(OneSession, OneSub, {TRUE})
    \/ RunsGradingBegin(OneSession)
    \/ Grading(1) /\ RecvBatchBegin(OneSession, OneSub)
    \/ RunsBatchBegin(OneSession)
    \/ Grading(1) /\ RecvBatchEnd(OneSession, OneSub)
    \/ Grading(1) /\ RecvTestCaseAt(OneSession, OneSub, Positions, MaxDecodeRows)
    \/ RunsTestCase(OneSession)
    \/ Grading(1) /\ RecvGradingEnd(OneSession, OneSub)
    \/ RunsGradingEnd(OneSession)
    \/ Posting(OneSession)

SpecCursor == InitRun /\ [][NextCursor]_vars

\* ----------------------------------------------------------------- race
\* The statements of the dispatcher and those of the judge that was given
\* the submission, in any order.
NextRace ==
    \/ JudgeConnects(OneSession, PlainExecutors)
    \/ ConnectRuns(OneSession)
    \/ Dispatches(OneSub)
    \/ DispatchRuns(OneSub, RaceReplies)
    \/ BridgeSubmits(OneSession, OneSub)
    \/ working[1] = 1 /\ RecvProcessing(OneSession, OneSub)
    \/ RunsProcessing(OneSession, {TRUE})
    \/ working[1] = 1 /\ RecvGradingBegin(OneSession, OneSub, {TRUE})
    \/ RunsGradingBegin(OneSession)
    \/ working[1] = 1 /\ RecvGradingEnd(OneSession, OneSub)
    \/ RunsGradingEnd(OneSession)
    \/ Posting(OneSession)

SpecRace == InitRun /\ [][NextRace]_vars

\* ------------------------------------------------------------- teardown
\* The bridge holds a request for a submission whose row was deleted after
\* it was dispatched.
InitTeardown ==
    /\ InitSessions
    /\ sub = [i \in SubIds |-> NewSubmission]
    /\ cases = [i \in SubIds |-> <<>>]
    /\ jsPc = [i \in SubIds |-> "idle"]
    /\ jsObj = [i \in SubIds |-> NewSubmission]
    /\ jsReply = [i \in SubIds |-> NoReply]
    /\ jsRet = [i \in SubIds |-> "none"]
    /\ jsSent = [i \in SubIds |-> "None"]
    /\ pending = {UnknownId}
    /\ budget = Unbounded
    /\ now = 0
    /\ posted = <<>>
    /\ torn = {}
    /\ last = [op |-> "init", s |-> 0, id |-> 0, st |-> "None", rows |-> 0,
               exc |-> FALSE, arg |-> "None", num |-> NoneVal,
               pos |-> NoneVal, wire |-> NoWire, out |-> <<>>]
    /\ problem = [i \in SubIds |->
                    ProblemSettings(TRUE, TRUE, 1000, FALSE, 0, TRUE, FALSE)]

\* A session that is given a stored or a deleted submission, begins to
\* grade, and closes at any point, while the dispatcher sends the submission
\* again; the statements of the two in any order.
NextTeardown ==
    \/ JudgeConnects(OneSession, PlainExecutors)
    \/ ConnectRuns(OneSession)
    \/ JudgeCloses(OneSession)
    \/ CloseDeletes(OneSession)
    \/ CloseRuns(OneSession)
    \/ Dispatches(OneSub)
    \/ DispatchRuns(OneSub, PlainReplies)
    \/ BridgeSubmits(OneSession, SpecIds)
    \/ RecvProcessing(OneSession, OneSub)
    \/ RunsProcessing(OneSession, {TRUE})
    \/ RecvGradingBegin(OneSession, OneSub, {TRUE})
    \/ RunsGradingBegin(OneSession)
    \/ Posting(OneSession)

SpecTeardown == InitTeardown /\ [][NextTeardown]_vars

\* ------------------------------------------------- claims: state machine
PacketOps ==
    {"processing", "grading-begin", "test-case", "grading-end", "compile-error",
     "compile-message", "internal-error", "submission-terminated"}

\* The steps of a packet handler: "running" up to the one at which it
\* returns, which bears the packet's name.
HandlerOps == PacketOps \cup {"running"}

\* The steps of a teardown, "closing" up to the one at which it returns.
CloseOps == {"close", "closing"}

\* C1: once a submission's status is D, CE, IE or AB, no packet handler and
\* no session teardown changes it.
TerminalIsAbsorbing ==
    [][\A id \in SubIds :
          (sub[id].status \in Terminal /\ last'.op \in HandlerOps \cup CloseOps)
              => sub'[id].status = sub[id].status]_vars

\* C3: a close while the assigned submission is in G sets its status to IE,
\* and from then on no row is created for that submission.
TeardownStopsRows ==
    [][/\ (last'.op = "close" /\ last'.id \in SubIds /\ last'.st = "G")
              => sub'[last'.id].status = "IE"
       /\ \A id \in torn : Len(cases'[id]) <= Len(cases[id])]_vars

\* The edges of Queued -> Processing -> Grading -> Done, with the side exits
\* from Processing and Grading.
Edge(a, b) ==
    \/ a = "QU" /\ b = "P"
    \/ a = "P" /\ b = "G"
    \/ a = "G" /\ b = "D"
    \/ a \in {"P", "G"} /\ b \in {"CE", "IE", "AB"}

\* A dispatch enters the graph: it may store QU or IE for a submission that
\* no judge has started on.
Entry(a, b) == a \in {"QU"} \cup Terminal /\ b \in {"QU", "IE"}

\* C4: every change of status by dispatch, a packet handler or teardown
\* follows an edge of the graph; the status never moves backwards.
StatusFollowsGraph ==
    [][\A id \in SubIds :
          sub'[id].status # sub[id].status
              => \/ Edge(sub[id].status, sub'[id].status)
                 \/ /\ last'.op = "judge-submission"
                    /\ Entry(sub[id].status, sub'[id].status)]_vars

\* C5: after a grading-begin packet for a known submission no test-case row
\* is stored for it.
GradingBeginClearsRows ==
    (last.op = "grading-begin" /\ last.id \in SubIds) => cases[last.id] = <<>>

\* C5 witness: a grading-begin arrived while rows of an earlier run were
\* stored, and they are gone.
RestartWithOldRows ==
    /\ last.op = "grading-begin"
    /\ last.id \in SubIds
    /\ last.rows > 0
    /\ cases[last.id] = <<>>

\* ------------------------------------------------------- claims: scoring
\* The sum of f over the finite set S.
RECURSIVE SumFn(_, _)
SumFn(f, S) ==
    IF S = {} THEN 0
    ELSE LET x == CHOOSE y \in S : TRUE IN f[x] + SumFn(f, S \ {x})

Standalone(rows) == {i \in 1..Len(rows) : rows[i].batch = NoneVal}
BatchIds(rows) == {rows[i].batch : i \in 1..Len(rows)} \ {NoneVal}
InBatch(rows, b) == {i \in 1..Len(rows) : rows[i].batch = b}
MinPoints(rows, b) ==
    CHOOSE m \in {rows[i].points : i \in InBatch(rows, b)} :
        \A i \in InBatch(rows, b) : m <= rows[i].points
MaxTotal(rows, b) ==
    CHOOSE m \in {rows[i].total : i \in InBatch(rows, b)} :
        \A i \in InBatch(rows, b) : m >= rows[i].total

\* Standalone points plus each batch's minimum; standalone totals plus each
\* batch's maximum.
ClaimedCasePoints(rows) ==
    SumFn([i \in Standalone(rows) |-> rows[i].points], Standalone(rows))
    + SumFn([b \in BatchIds(rows) |-> MinPoints(rows, b)], BatchIds(rows))
ClaimedCaseTotal(rows) ==
    SumFn([i \in Standalone(rows) |-> rows[i].total], Standalone(rows))
    + SumFn([b \in BatchIds(rows) |-> MaxTotal(rows, b)], BatchIds(rows))

\* r is n / d rounded to a tenth (all in hundredths, n >= 0, d > 0): a
\* tenth at most half a tenth away from n / d.  A quotient halfway between
\* two tenths may be rounded to either, as the float falls.
IsNearestTenth(r, n, d) ==
    /\ r % 10 = 0
    /\ (r - 5) * d <= n
    /\ n <= (r + 5) * d

\* v is round(case_points / case_total * maxpts, 1), or 0 for no total.
IsComputedPoints(v, id, maxpts) ==
    IF sub[id].case_total > 0
    THEN IsNearestTenth(v, sub[id].case_points * maxpts, sub[id].case_total)
    ELSE v = 0

\* The computed points of a graded submission: the rounded quotient of its
\* stored case points and case total, times the problem's points.
ComputedOf(id) ==
    ComputedPoints(sub[id].case_points, sub[id].case_total, problem[id].points)

GradingEnded(id) == last.op = "grading-end" /\ last.id = id

\* C6 as stated: case_points and case_total are the plain sums.
CasePointsArePlainSums ==
    GradingEnded(1) =>
        /\ sub[1].case_points = ClaimedCasePoints(cases[1])
        /\ sub[1].case_total = ClaimedCaseTotal(cases[1])

\* C6 amended: case_points and case_total are those sums rounded to one
\* decimal place, whatever the order of the rows; a sum halfway between two
\* tenths is stored as one of the two.
CasePointsAreRoundedSums ==
    GradingEnded(1) =>
        /\ IsNearestTenth(sub[1].case_points, ClaimedCasePoints(cases[1]), 1)
        /\ IsNearestTenth(sub[1].case_total, ClaimedCaseTotal(cases[1]), 1)

\* C6 witness: grading ended on a batch of two rows with points 3 and 5 out
\* of 5, which counts 3 of 5.
BatchOfThreeAndFive ==
    /\ GradingEnded(1)
    /\ Len(cases[1]) = 2
    /\ cases[1][1].batch = 1 /\ cases[1][2].batch = 1
    /\ {cases[1][1].points, cases[1][2].points} = {300, 500}
    /\ sub[1].case_points = 300
    /\ sub[1].case_total = 500

\* C7: without partial credit the final points are 0 or the problem's
\* points, and the problem's points exactly when the computed points equal
\* them; with partial credit the computed points are kept.
AllOrNothing ==
    GradingEnded(1) =>
        IF problem[1].partial
        THEN sub[1].points = ComputedOf(1)
        ELSE /\ sub[1].points \in {0, problem[1].points}
             /\ sub[1].points = problem[1].points
                   <=> ComputedOf(1) = problem[1].points

\* C7 witness: 9.5 of 10 computed on a problem without partial credit gives 0.
NinePointFiveGivesZero ==
    /\ GradingEnded(1)
    /\ ~problem[1].partial
    /\ sub[1].case_points = 950
    /\ sub[1].case_total = 1000
    /\ sub[1].points = 0

\* C8: grading-end ends in Done, with points round(case_points / case_total
\* * max, 1) for a total above 0 and 0 otherwise, wherever partial credit
\* keeps the computed points (the problem's or the contest problem's).
PointsFormula ==
    GradingEnded(1) =>
        /\ sub[1].status = "D"
        /\ problem[1].partial
              => IsComputedPoints(sub[1].points, 1, problem[1].points)
        /\ problem[1].contest_partial
              => IsComputedPoints(sub[1].contest_points, 1, problem[1].contest_points)
        /\ sub[1].case_total = 0 => sub[1].points = 0

\* C8 witness: grading ended with no stored row: total 0, points 0, Done.
GradingEndedWithoutRows ==
    /\ GradingEnded(1)
    /\ cases[1] = <<>>
    /\ sub[1].case_total = 0
    /\ sub[1].points = 0
    /\ sub[1].status = "D"

\* ------------------------------------------------- claims: rate limiting
\* The start of the window the i-th test-case packet falls in: the first
\* packet opens a window, and so does the first one that arrives more than
\* 0.5 s after the start of the current window.
RECURSIVE WindowStart(_, _)
WindowStart(log, i) ==
    IF i = 1 THEN log[1].t
    ELSE LET w == WindowStart(log, i - 1)
         IN  IF log[i].t - w > UPDATE_RATE_TIME THEN log[i].t ELSE w

\* The place of the i-th packet among the packets of its window.
RankInWindow(log, i) ==
    Cardinality({j \in 1..i : WindowStart(log, j) = WindowStart(log, i)})

\* C9: of the k test-case packets of a window exactly the first min(k, 5)
\* are published; the packet that opens a new window is published.
WindowPublishesFive ==
    \A s \in OneSession, id \in OneSub :
        \A i \in 1..Len(tcLog[s][id]) :
            tcLog[s][id][i].pub <=> RankInWindow(tcLog[s][id], i) <= UPDATE_RATE_LIMIT

\* C9 witness: 7 packets within 0.5 s, 5 of them published, and an 8th after
\* the window, published.
SevenThenEighth ==
    LET log == tcLog[1][1]
    IN  /\ Len(log) = 8
        /\ log[7].t - log[1].t <= UPDATE_RATE_TIME
        /\ Cardinality({i \in 1..7 : log[i].pub}) = 5
        /\ log[8].t - log[1].t > UPDATE_RATE_TIME
        /\ log[8].pub

\* C10: in every half-second interval [a, a + 0.5 s) at most 5 test-case
\* events of one submission are published by a session.
SlidingWindowBound ==
    \A s \in OneSession, id \in OneSub, a \in 0..MaxTime :
        Cardinality({i \in 1..Len(tcLog[s][id]) :
                        /\ tcLog[s][id][i].pub
                        /\ a <= tcLog[s][id][i].t
                        /\ tcLog[s][id][i].t < a + UPDATE_RATE_TIME})
            <= UPDATE_RATE_LIMIT

\* ----------------------------------------------------- claims: dispatch
\* C12: a packet of any kind whose id matches no stored submission raises
\* nothing, changes no submission and no row, and publishes nothing.
UnknownIdIsIgnored ==
    [][(last'.id = UnknownId /\ last'.op \in PacketOps \cup {"batch-begin"})
          => /\ ~last'.exc
             /\ sub' = sub
             /\ cases' = cases
             /\ posted' = <<>>]_vars

TransportFailures == {"refused", "timeout", "closed", "garbage"}

\* C15: a dispatch whose request fails in transport raises nothing, stores
\* status IE and returns False.
TransportFailureGivesIE ==
    (last.op = "judge-submission" /\ last.arg \in TransportFailures) =>
        /\ ~last.exc
        /\ sub[last.id].status = "IE"
        /\ jsRet[last.id] = "false"

\* C15 witness: a submission that was Done is dispatched again, the peer
\* closes without a reply, and the submission is in IE with False returned.
RedispatchMeetsClosedPeer ==
    /\ last.op = "judge-submission"
    /\ last.arg = "closed"
    /\ last.st = "D"
    /\ sub[last.id].status = "IE"
    /\ jsRet[last.id] = "false"

\* C16: a dispatch that gets a reply stores QU exactly when the reply is
\* 'submission-received' with the id of the request and IE for any other
\* reply; no packet handler and no teardown stores QU.
QueuedOnlyOnAck ==
    [][\A id \in SubIds :
          /\ (last'.op = "judge-submission" /\ last'.id = id
                  /\ last'.arg \notin TransportFailures)
                => sub'[id].status =
                      IF last'.arg = "submission-received" /\ last'.num = id
                      THEN "QU" ELSE "IE"
          /\ (last'.op \in HandlerOps \cup CloseOps /\ sub'[id].status = "QU")
                => sub[id].status = "QU"]_vars

\* ------------------------------------------------------- claims: events
\* C17: an event on the feed channel 'submissions' is posted only for a
\* submission whose problem is public: by no step, and so by no handler
\* and no dispatch as a whole.
FeedOnlyForPublic ==
    /\ \A i \in 1..Len(posted) :
          posted[i].ch = "submissions" => problem[posted[i].id].is_public
    /\ \A i \in 1..Len(last.out) :
          last.out[i].ch = "submissions" => problem[last.out[i].id].is_public

\* C17 witness: grading ended for a submission on a non-public problem, with
\* an event on its own channel and none on the feed.
PrivateGradingEndOffFeed ==
    /\ GradingEnded(1)
    /\ ~problem[1].is_public
    /\ \E i \in 1..Len(last.out) : last.out[i].ch = "sub"
    /\ \A i \in 1..Len(last.out) : last.out[i].ch # "submissions"

\* C18: every packet handler or teardown that leaves a submission with
\* another status than it found posts, as it returns, an event on the
\* channel of that submission.
StatusChangeIsPublished ==
    [][\A id \in SubIds :
          (/\ last'.op \in PacketOps \cup {"close"}
           /\ last'.id = id
           /\ sub'[id].status # last'.st)
              => \E i \in 1..Len(last'.out) :
                    last'.out[i].ch = "sub" /\ last'.out[i].id = id]_vars

\* C19: after compile-error, internal-error or submission-terminated for a
\* known submission, status and result hold CE, IE, AB respectively, and the
\* error text holds the log / message of the packet.
ErrorPacketsSetStatusAndResult ==
    \A id \in SubIds :
        /\ (last.op = "compile-error" /\ last.id = id)
              => sub[id].status = "CE" /\ sub[id].result = "CE"
                    /\ sub[id].error = last.arg
        /\ (last.op = "internal-error" /\ last.id = id)
              => sub[id].status = "IE" /\ sub[id].result = "IE"
                    /\ sub[id].error = last.arg
        /\ (last.op = "submission-terminated" /\ last.id = id)
              => sub[id].status = "AB" /\ sub[id].result = "AB"

\* ----------------------------------------------------- claims: registry
\* The judge has a session that is connected (closing or not).
HasLiveSession(j) == \E s \in Sessions : live[s] /\ name[s] = j

\* C13: a judge with no live session is marked offline and has no
\* runtime-version rows.
NoStaleRegistry ==
    \A j \in JudgeNames :
        ~HasLiveSession(j) => ~online[j] /\ runtimes[j] = {}

\* C13 witness: two sessions of one judge were connected and both have
\* closed, the second one just now.
BothSessionsClosed ==
    /\ last.op = "close"
    /\ \A s \in Sessions : ~live[s] /\ name[s] = "j1"
    /\ ~online["j1"]
    /\ runtimes["j1"] = {}

\* A session of the judge is within _connected.
Connecting(j) ==
    \E s \in Sessions : live[s] /\ name[s] = j /\ hObj[s].op = "connect"

\* C14: no state, apart from those within the connect of one of its
\* sessions, shows a judge that is marked offline while runtime-version rows
\* are stored for it.
NoOfflineJudgeWithRuntimes ==
    \A j \in JudgeNames :
        (~online[j] /\ ~Connecting(j)) => runtimes[j] = {}

\* ------------------------------------------------ claims: status tokens
\* The flags in the priority order of the decoding, with their tokens.
FlagOrder ==
    <<<<4, "TLE">>, <<8, "MLE">>, <<64, "OLE">>, <<2, "RTE">>, <<16, "IR">>,
      <<1, "WA">>, <<32, "SC">>>>

\* The places in FlagOrder of the flags set in mask.
SetFlags(mask) == {k \in 1..Len(FlagOrder) : (mask \div FlagOrder[k][1]) % 2 = 1}

\* The least element of a non-empty set of numbers.
Least(S) == CHOOSE m \in S : \A x \in S : m <= x

\* The token of the first set flag, AC when none of the seven is set.
FirstFlagToken(mask) ==
    IF SetFlags(mask) = {} THEN "AC" ELSE FlagOrder[Least(SetFlags(mask))][2]

\* The place of a token in the severity order TLE > MLE > OLE > RTE > IR >
\* WA > SC > AC (1 is the worst).
Severity(tok) ==
    IF tok = "AC" THEN Len(FlagOrder) + 1
    ELSE CHOOSE k \in 1..Len(FlagOrder) : FlagOrder[k][2] = tok

\* C11: the row a test-case packet stores has the token of the first set
\* flag in the order TLE, MLE, OLE, RTE, IR, WA, SC, and AC when none is set.
StoredStatusIsFirstFlag ==
    (last.op = "test-case" /\ last.id \in SubIds) =>
        /\ cases[last.id] # <<>>
        /\ cases[last.id][Len(cases[last.id])].status = FirstFlagToken(last.num)

\* C11 witness: a packet with TLE(4) and WA(1) both set was stored as TLE.
TleAndWaStoredAsTle ==
    /\ last.op = "test-case"
    /\ last.id = 1
    /\ last.num = 5
    /\ cases[1][Len(cases[1])].status = "TLE"

\* C20: at grading-end the result is the worst status of the stored rows
\* in the order TLE > MLE > OLE > RTE > IR > WA > SC > AC.
ResultIsWorstByDecodeOrder ==
    (GradingEnded(1) /\ cases[1] # <<>>) =>
        /\ \E i \in 1..Len(cases[1]) : cases[1][i].status = sub[1].result
        /\ \A i \in 1..Len(cases[1]) :
              Severity(sub[1].result) <= Severity(cases[1][i].status)

\* A connected session holds the submission (self._working).
HeldByJudge(id) == \E s \in OneSession : Assigned(s) /\ working[s] = id

\* C2: no submission stays in Processing or Grading forever with no judge
\* attached: whenever a submission is in P or G and no connected session
\* holds it, eventually its status is another one or a session holds it.
NoSubmissionStuck ==
    \A id \in OneSub :
        (sub[id].status \in {"P", "G"} /\ ~HeldByJudge(id))
            ~> (sub[id].status \notin {"P", "G"} \/ HeldByJudge(id))

\* C22: every step of the handler of a packet for one submission, on any
\* session, leaves the fields and the rows of every other stored submission
\* unchanged.
PacketsTouchOwnSubmission ==
    [][\A b \in SubIds :
          (last'.op \in HandlerOps \cup {"batch-begin", "batch-end"} /\ last'.id # b)
              => /\ sub'[b] = sub[b]
                 /\ cases'[b] = cases[b]]_vars

\* C22 witness: submission 1 restarted grading on session 1 while
\* submission 2, graded on session 2, holds a row, and the row is kept.
RestartBesideGradedNeighbour ==
    /\ last.op = "grading-begin"
    /\ last.id = 1
    /\ last.s = 1
    /\ last.rows = 1
    /\ cases[1] = <<>>
    /\ sub[2].status = "G"
    /\ Len(cases[2]) = 1
    /\ Len(tcLog[2][2]) = 1

\* C23: judge_request raises when the read of the length prefix or the read
\* of the payload returns no byte, and gives a decoded reply only after a
\* whole frame was read; the dispatcher then stores IE and returns false.
EmptyReadRaises ==
    (last.op = "judge-submission" /\ last.wire # NoWire) =>
        /\ (\/ last.wire.prefix = 0
            \/ last.wire.prefix = SIZE_PACK /\ last.wire.got = 0) =>
              /\ last.arg = "closed"
              /\ sub[last.id].status = "IE"
              /\ jsRet[last.id] = "false"
        /\ last.arg \notin {"submission-received", "other"} =>
              /\ sub[last.id].status = "IE"
              /\ jsRet[last.id] = "false"
        /\ last.arg \in {"submission-received", "other"} =>
              /\ last.wire.prefix = SIZE_PACK
              /\ last.wire.length > 0
              /\ last.wire.got = last.wire.length
              /\ last.wire.valid

\* C24: _update_ping returns normally whatever the update raises, leaves the
\* session and the submissions as they were, stores nothing on a failure,
\* and the session handles the next packet.
PingNeverRaises ==
    /\ [][last'.op = "ping" =>
             /\ ~last'.exc
             /\ sessVars' = sessVars
             /\ hObj' = hObj
             /\ sub' = sub
             /\ cases' = cases
             /\ last'.arg # "none" => ping' = ping]_vars
    /\ [](last.op = "ping" => ENABLED RecvProcessing({last.s}, OneSub))

\* C25: grading-begin stores status G, is_pretested as the packet's
\* 'pretested' says, whatever the dispatcher stored, current_testcase 1 and
\* the batch flag false.
GradingBeginStoresItsFields ==
    (last.op = "grading-begin" /\ last.id \in SubIds) =>
        /\ sub[last.id].status = "G"
        /\ sub[last.id].is_pretested = (last.num = 1)
        /\ sub[last.id].current_testcase = 1
        /\ ~sub[last.id].batch

\* C26: every test-case packet for a stored submission adds exactly one row
\* behind the rows already stored, whether or not its event is published,
\* and grading-end aggregates all the stored rows.  No step of the handler
\* changes a row that was stored, and when it returns the submission has
\* one row more than when the packet arrived.
EveryTestCaseIsStored ==
    /\ [][\A s \in Sessions :
             (last'.s = s /\ last'.op \in HandlerOps /\ hObj[s].op = "test-case") =>
                 SubSeq(cases'[last'.id], 1, Len(cases[last'.id])) = cases[last'.id]]_vars
    /\ []((last.op = "test-case" /\ last.id \in SubIds) =>
             Len(cases[last.id]) = last.rows + 1)
    /\ [](GradingEnded(1) =>
             /\ sub[1].case_points = ClaimedCasePoints(cases[1])
             /\ sub[1].case_total = ClaimedCaseTotal(cases[1]))

\* C26 witness: grading ended on seven rows of 5 points each, the last two
\* stored by packets whose events the limiter dropped.
DroppedEventsStillCount ==
    /\ GradingEnded(1)
    /\ Len(cases[1]) = 7
    /\ Len(tcLog[1][1]) = 7
    /\ ~tcLog[1][1][6].pub
    /\ ~tcLog[1][1][7].pub
    /\ sub[1].case_points = 3500

\* C27: the row of a test-case packet with position p has case = p and, as
\* batch, the session's batch id inside a batch and null outside; the
\* submission's current_testcase becomes p + 1.
RowCarriesPositionAndBatch ==
    (last.op = "test-case" /\ last.id \in SubIds) =>
        LET row == cases[last.id][Len(cases[last.id])]
        IN  /\ row.case = last.pos
            /\ in_batch[last.s] => row.batch = batch_id[last.s]
            /\ ~in_batch[last.s] => row.batch = NoneVal
            /\ sub[last.id].current_testcase = last.pos + 1

\* C27 witness: the first stored row of a run came with position 3 inside
\* the session's second batch.
PositionThreeInSecondBatch ==
    /\ last.op = "test-case"
    /\ last.id = 1
    /\ last.pos = 3
    /\ Len(cases[1]) = 1
    /\ in_batch[1]
    /\ batch_id[1] = 2
    /\ cases[1][1].batch = 2
    /\ cases[1][1].case = 3
    /\ sub[1].current_testcase = 4

\* The packets whose events do not pass through the limiter.
UnlimitedOps ==
    {"processing", "grading-begin", "grading-end", "compile-error",
     "compile-message", "internal-error"}

\* C28: the handler of a processing, grading-begin, grading-end,
\* compile-error, compile-message or internal-error packet posts its event
\* on the submission's channel whatever the limiter's counters hold, and
\* leaves the counters as they were.
OtherEventsBypassLimiter ==
    [][/\ (last'.op \in UnlimitedOps /\ last'.id \in SubIds) =>
             \E i \in 1..Len(last'.out) :
                 last'.out[i] = Event("sub", last'.id, last'.op)
       /\ \A s \in Sessions :
             (last'.s = s /\ last'.op \in HandlerOps
                  /\ (hObj[s].op \in UnlimitedOps \/ hObj'[s].op \in UnlimitedOps))
                => update_counter' = update_counter]_vars

\* C28 witness: grading-end was published while the limiter, at seven
\* test-case packets in the window, was dropping test-case events.
GradingEndPublishedWhileDropping ==
    /\ GradingEnded(1)
    /\ update_counter[1][1].cnt = 7
    /\ ~tcLog[1][1][7].pub
    /\ last.out[1] = Event("sub", 1, "grading-end")

\* C29: a compile-message packet stores its log as the submission's error,
\* changes no other field and no row, and posts one 'compile-message' event
\* on the submission's channel and nothing else, public problem or not.
CompileMessageOnlyStoresLog ==
    /\ [][\A s \in Sessions :
             (last'.s = s /\ last'.op \in HandlerOps
                  /\ (hObj[s].op = "compile-message"
                         \/ hObj'[s].op = "compile-message")) =>
                 /\ \/ sub' = sub
                    \/ sub' = [sub EXCEPT ![last'.id].error = hObj[s].pkt]
                 /\ cases' = cases
                 /\ \A i \in 1..Len(posted') :
                       posted'[i] = Event("sub", last'.id, "compile-message")]_vars
    /\ []((last.op = "compile-message" /\ last.id \in SubIds) =>
             /\ sub[last.id].error = last.arg
             /\ last.out = <<Event("sub", last.id, "compile-message")>>)

\* C30: when judge_submission stores QU at its end, it does not replace a
\* status that a packet handler stored after the request was sent.
FinalWriteKeepsHandlerStatus ==
    [][\A id \in SubIds :
          (/\ last'.op = "judge-submission"
           /\ last'.id = id
           /\ last'.arg = "submission-received"
           /\ last'.num = id
           /\ sub[id].status # jsSent[id])
              => sub'[id].status = sub[id].status]_vars

\* C31: judge_submission returns True exactly when it stored QU and False
\* exactly when it stored IE.
SuccessFlagMatchesStatus ==
    (last.op = "judge-submission" /\ ~last.exc) =>
        /\ jsRet[last.id] = "true" <=> sub[last.id].status = "QU"
        /\ jsRet[last.id] = "false" <=> sub[last.id].status = "IE"

\* C32: a stored submission whose status is CE, IE or AB has its result
\* equal to its status, whichever path stored the status.
ErrorStatusHasItsResult ==
    \A id \in SubIds :
        sub[id].status \in {"CE", "IE", "AB"} => sub[id].result = sub[id].status

\* C33: a judge with an authenticated session whose _connected has
\* returned and that has not begun to close is marked online and has the
\* runtime-version rows that session declared, also when another session of
\* the same judge disconnects.
LiveSessionKeepsJudgeOnline ==
    \A s \in Sessions :
        (live[s] /\ handshaken[s] /\ ~Closing(s)) =>
            /\ online[name[s]]
            /\ \A k \in DOMAIN executors[s] \cap SiteLanguages :
                  RuntimeRows(s, k) \subseteq runtimes[name[s]]

\* C34: on_close raises nothing, also when the session works on an id with
\* no stored row; it changes no submission when the session works on none,
\* and otherwise only the status of the one it works on; it changes no row.
TeardownNeverRaises ==
    [][last'.op \in CloseOps =>
          /\ ~last'.exc
          /\ cases' = cases
          /\ working[last'.s] = 0 => sub' = sub
          /\ \A id \in SubIds :
                sub'[id] # sub[id] =>
                    /\ id = working[last'.s]
                    /\ sub'[id] = [sub[id] EXCEPT !.status = "IE"]]_vars

\* The result tokens in ascending severity.
SeverityOrder == <<"SC", "AC", "WA", "MLE", "TLE", "IR", "RTE", "OLE">>

Rank(tok) == CHOOSE k \in 1..Len(SeverityOrder) : SeverityOrder[k] = tok

\* C21: at grading-end the result is one of the eight tokens: the highest
\* in the order SC < AC < WA < MLE < TLE < IR < RTE < OLE among the stored
\* rows, whatever their order, and SC when no row is stored.
ResultIsHighestRanked ==
    GradingEnded(1) =>
        /\ \E k \in 1..Len(SeverityOrder) : sub[1].result = SeverityOrder[k]
        /\ cases[1] = <<>> => sub[1].result = "SC"
        /\ cases[1] # <<>> =>
              /\ \E i \in 1..Len(cases[1]) : cases[1][i].status = sub[1].result
              /\ \A i \in 1..Len(cases[1]) :
                    Rank(cases[1][i].status) <= Rank(sub[1].result)

\* C21 witness: grading ended on the rows OLE, TLE in this order, and the
\* result is OLE, the status of the first row.
OleBeforeTleGivesOle ==
    /\ GradingEnded(1)
    /\ Len(cases[1]) = 2
    /\ cases[1][1].status = "OLE"
    /\ cases[1][2].status = "TLE"
    /\ sub[1].result = "OLE"

====
